---------------------------- MODULE Spec2Model ----------------------------
(***************************************************************************)
(* Model of the stockbot news pipeline (src/bot.py, src/storage.py,        *)
(* src/news_scraper.py, src/gemini_client.py): the candidate fetch         *)
(* _fetch_news_for_code, the window gate _within_quiet_hours_wib, the      *)
(* scheduled job _job_auto_news_wrapper and the /autonews command.         *)
(*                                                                         *)
(* Representation of Python values:                                        *)
(*  - a feed text (title or link of a feed entry) is a record              *)
(*    [ws, core]: core is the text with surrounding whitespace removed     *)
(*    (0 is the empty text), ws says whether whitespace surrounds it;      *)
(*  - a url is a positive integer (the stripped link text);                *)
(*  - the configured window string is a sequence of one-character strings; *)
(*  - a JSON object is a function whose DOMAIN is its key set.             *)
(***************************************************************************)
EXTENDS Integers, Sequences, FiniteSets, TLC

VARIABLES
    \* configuration, read once at import (src/bot.py:29-65)
    AUTO_NEWS_ENABLED, AUTO_NEWS_PER_TICKER_MAX_NEW, AUTO_NEWS_PER_CHAT_MAX_PER_RUN,
    NEWS_ITEMS_PER_SOURCE, NEWS_LIMIT_TOTAL, ALLOWED_GROUP_IDS, QUIET_HOURS_WIB,
    \* persisted documents
    newsStateFile, watchlistFile,
    \* the scheduled job: position and locals of _job_auto_news_wrapper
    pc, filtered, state, ci, sent_this_run, tickers, ti, code, already,
    items, ii, new_sent_for_ticker, msg,
    \* observation of the job (history variables); prevHist is the history a
    \* record replaced, kept while the job is at the pacing delay after it
    runs, lastRun, sentLog, recorded, prevHist, cmds,
    \* the messages delivered during runs that a termination of the process
    \* interrupted (history variable)
    killedSent,
    \* what the run did last towards the chat platform: "none" before its
    \* first send_message call, "called" after a call, "slept" once the
    \* asyncio.sleep of line 711 has elapsed (history variable)
    pace,
    \* the clock reading of the gate, datetime.now() at src/bot.py:197
    clock,
    \* harness for the candidate fetch taken alone
    fpc, feedIn, fetchOut,
    \* harness for load_json and save_json taken alone: the file system, the
    \* position in save_json, the value being saved, the target file before
    \* the save, the position at which the process crashed, the loaded value
    fs, spc, saveData, prevTarget, crashedAt, loadOut,
    \* harness for the window gate taken alone: its position and its result
    gpc, gateOut,
    \* the rate limiter taken alone: RATE_LIMIT_SECONDS (src/bot.py:45), the
    \* _LAST_CALL map (line 81), the wall clock time.time(), and the log of
    \* the calls of _rate_limit_ok (history variable)
    RATE_LIMIT_SECONDS, LAST_CALL, wall, rlLog,
    \* the /watch command taken alone: per chat, the tickers added and not
    \* removed afterwards, and the number of commands (history variables)
    wlExpect, wlLast

cfgVars == <<AUTO_NEWS_ENABLED, AUTO_NEWS_PER_TICKER_MAX_NEW, AUTO_NEWS_PER_CHAT_MAX_PER_RUN,
             NEWS_ITEMS_PER_SOURCE, NEWS_LIMIT_TOTAL, ALLOWED_GROUP_IDS, QUIET_HOURS_WIB>>

fileVars == <<newsStateFile, watchlistFile>>

jobVars == <<pc, filtered, state, ci, sent_this_run, tickers, ti, code, already,
             items, ii, new_sent_for_ticker, msg>>

histVars == <<runs, lastRun, sentLog, recorded, prevHist, cmds, killedSent, pace, clock>>

fetchVars == <<fpc, feedIn, fetchOut>>

storeVars == <<fs, spc, saveData, prevTarget, crashedAt, loadOut>>

gateVars == <<gpc, gateOut>>

rateVars == <<RATE_LIMIT_SECONDS, LAST_CALL, wall, rlLog>>

watchVars == <<wlExpect, wlLast>>

harnessVars == <<fetchVars, storeVars, gateVars, rateVars, watchVars>>

vars == <<cfgVars, fileVars, jobVars, histVars, harnessVars>>

---------------------------------------------------------------------------
(* Bounds of the model *)

\* longest entry list one source's feed returns
MaxFeedLen == 2

\* number of job runs explored
MaxRuns == 2

\* number of /autonews commands explored
MaxCmds == 1

\* number of sources, in registry order, that return entries to the job
MaxJobSources == 1

\* largest configured cap explored (caps range over 0..MaxCap)
MaxCap == 2

\* longest body of a JSON document in the persistence harness
MaxDocLen == 2

\* calls of the rate limiter in one behaviour
MaxCalls == 3

\* seconds the wall clock runs after the start of the process
MaxWall == 3

---------------------------------------------------------------------------
(* Python helpers *)

Min(a, b) == IF a <= b THEN a ELSE b

Max(a, b) == IF a >= b THEN a ELSE b

\* s[:n]
PySliceTo(s, n) ==
    IF n >= 0 THEN SubSeq(s, 1, Min(n, Len(s)))
    ELSE SubSeq(s, 1, Max(Len(s) + n, 0))

\* s[-n:] for n > 0
PySliceLast(s, n) ==
    IF Len(s) <= n THEN s ELSE SubSeq(s, Len(s) - n + 1, Len(s))

\* elements of a sequence
Range(s) == {s[i] : i \in 1..Len(s)}

\* a faulty variant of SetDefault: the default replaces the entry of the key
SetDefault_Overwrite(d, k, v) ==
    [x \in DOMAIN d \cup {k} |-> IF x = k THEN v ELSE d[x]]

\* d.setdefault(k, v) on a JSON object
SetDefault(d, k, v) ==
    IF k \in DOMAIN d THEN d
    ELSE [x \in DOMAIN d \cup {k} |-> IF x = k THEN v ELSE d[x]]

\* d[k] = v on a JSON object
Put(d, k, v) == [x \in DOMAIN d \cup {k} |-> IF x = k THEN v ELSE d[x]]

\* the empty JSON object
EmptyObj == [x \in {} |-> 0]

\* truthiness of a feed text: "not title" holds of the empty text only
IsEmptyText(t) == t.core = 0 /\ ~t.ws

\* str.strip()
Strip(t) == t.core

Text(c) == [ws |-> FALSE, core |-> c]

Padded(c) == [ws |-> TRUE, core |-> c]

---------------------------------------------------------------------------
(* Persistence: load_json and save_json, src/storage.py:6-20.  A file is a *)
(* record [exists, text]; its text is a sequence of tokens.  A JSON value  *)
(* is a record [kind, body]: kind "object" or "array", body its content.   *)

NoFile == [exists |-> FALSE, text |-> <<>>]

FileOf(text) == [exists |-> TRUE, text |-> text]

OpenToken(kind) == IF kind = "object" THEN "{" ELSE "["

CloseToken(kind) == IF kind = "object" THEN "}" ELSE "]"

Brackets == {"{", "}", "[", "]"}

\* json.dump (line 19): the text of a value
Dump(v) == <<OpenToken(v.kind)>> \o v.body \o <<CloseToken(v.kind)>>

\* json.load (line 11): the value of a text, or an exception
Parse(text) ==
    LET n == Len(text)
        kind == IF text[1] = "{" THEN "object" ELSE "array"
    IN IF /\ n >= 2
          /\ text[1] \in {"{", "["}
          /\ text[n] = CloseToken(kind)
          /\ \A i \in 2..(n - 1) : text[i] \notin Brackets
       THEN [ok |-> TRUE, value |-> [kind |-> kind, body |-> SubSeq(text, 2, n - 1)]]
       ELSE [ok |-> FALSE, value |-> [kind |-> "none", body |-> <<>>]]

\* load_json, lines 6-13: the default when the file is absent or json.load
\* raises, else whatever value the text holds
LoadJson(files, path, default) ==
    IF ~files[path].exists THEN default
    ELSE IF Parse(files[path].text).ok THEN Parse(files[path].text).value
    ELSE default

\* a faulty variant of TmpPath: save_json writes into the target itself
TmpPath_InPlace(path) == path

\* line 17: tmp = f"{path}.tmp"
TmpPath(path) == Append(path, ".tmp")

\* line 18: open(tmp, "w") creates or truncates the file
OpenForWrite(files, path) == [files EXCEPT ![path] = FileOf(<<>>)]

\* line 19: one more token of the text reaches the file
WriteToken(files, path, tok) == [files EXCEPT ![path].text = Append(@, tok)]

\* line 20: os.replace(tmp, path)
Replace(files, src, dst) ==
    IF src = dst THEN files
    ELSE [files EXCEPT ![dst] = files[src], ![src] = NoFile]

---------------------------------------------------------------------------
(* Source registry: src/bot.py:58-63 *)

\* dict iteration order of NEWS_DOMAINS
SourceLabels == <<"IDX", "InvestorID", "CNBC", "RTI">>

NEWS_DOMAINS ==
    [IDX |-> "idx.co.id", InvestorID |-> "investor.id",
     CNBC |-> "cnbcindonesia.com", RTI |-> "rti.co.id"]

---------------------------------------------------------------------------
(* Candidate fetch: _fetch_news_for_code, src/bot.py:349-377 *)

\* lines 357-366: the entries loop of one source
RECURSIVE CollectEntries(_, _, _, _, _)
CollectEntries(label, entries, i, count, perSource) ==
    IF i > Len(entries) THEN <<>>
    ELSE LET e == entries[i] IN
         IF IsEmptyText(e.title) \/ IsEmptyText(e.link)
         THEN CollectEntries(label, entries, i + 1, count, perSource)
         ELSE <<[src |-> label, title |-> Strip(e.title), link |-> Strip(e.link)]>>
              \o (IF count + 1 >= perSource THEN <<>>
                  ELSE CollectEntries(label, entries, i + 1, count + 1, perSource))

\* a faulty variant of CollectSources: the later sources come first
RECURSIVE CollectSources_Reversed(_, _, _)
CollectSources_Reversed(feed, k, perSource) ==
    IF k > Len(SourceLabels) THEN <<>>
    ELSE CollectSources_Reversed(feed, k + 1, perSource)
         \o CollectEntries(SourceLabels[k], feed[SourceLabels[k]].entries, 1, 0, perSource)

\* lines 353-366: the loop over the sources, in registry order
RECURSIVE CollectSources(_, _, _)
CollectSources(feed, k, perSource) ==
    IF k > Len(SourceLabels) THEN <<>>
    ELSE CollectEntries(SourceLabels[k], feed[SourceLabels[k]].entries, 1, 0, perSource)
         \o CollectSources(feed, k + 1, perSource)

\* a faulty variant of DedupByLink: the last occurrence of a link is kept
DedupByLink_KeepLast(results) ==
    LET RECURSIVE Go(_)
        Go(i) ==
            IF i > Len(results) THEN <<>>
            ELSE IF \E j \in (i + 1)..Len(results) : results[j].link = results[i].link
                 THEN Go(i + 1)
                 ELSE <<results[i]>> \o Go(i + 1)
    IN Go(1)

\* lines 368-375: de-dup by link, first occurrence kept
DedupByLink(results) ==
    LET RECURSIVE Go(_, _)
        Go(i, seen) ==
            IF i > Len(results) THEN <<>>
            ELSE IF results[i].link \in seen THEN Go(i + 1, seen)
                 ELSE <<results[i]>> \o Go(i + 1, seen \cup {results[i].link})
    IN Go(1, {})

\* feedparser.parse (line 355) raises for some source: nothing catches it
FeedRaises(feed) == \E k \in 1..Len(SourceLabels) : ~feed[SourceLabels[k]].ok

\* the whole function: [raised, items]
FetchNewsForCode(feed, perSource, limitTotal) ==
    IF FeedRaises(feed) THEN [raised |-> TRUE, items |-> <<>>]
    ELSE [raised |-> FALSE,
          items |-> PySliceTo(DedupByLink(CollectSources(feed, 1, perSource)), limitTotal)]

---------------------------------------------------------------------------
(* Window gate: _within_quiet_hours_wib, src/bot.py:187-203 *)

DigitChars == {"0", "1", "2", "3", "4", "5", "6", "7", "8", "9"}

DigitVal(c) ==
    CASE c = "0" -> 0 [] c = "1" -> 1 [] c = "2" -> 2 [] c = "3" -> 3 [] c = "4" -> 4
      [] c = "5" -> 5 [] c = "6" -> 6 [] c = "7" -> 7 [] c = "8" -> 8 [] c = "9" -> 9

\* position of the first occurrence of character c in s, 0 when there is none
FirstIndex(s, c) ==
    IF \E i \in 1..Len(s) : s[i] = c
    THEN CHOOSE i \in 1..Len(s) : s[i] = c /\ \A j \in 1..(i - 1) : s[j] # c
    ELSE 0

\* s.split(c, 1)
SplitOnce(s, c) ==
    LET i == FirstIndex(s, c) IN
    IF i = 0 THEN <<s>> ELSE <<SubSeq(s, 1, i - 1), SubSeq(s, i + 1, Len(s))>>

\* s.split(c)
RECURSIVE SplitAll(_, _)
SplitAll(s, c) ==
    LET i == FirstIndex(s, c) IN
    IF i = 0 THEN <<s>>
    ELSE <<SubSeq(s, 1, i - 1)>> \o SplitAll(SubSeq(s, i + 1, Len(s)), c)

\* s.strip() on a character sequence
RECURSIVE StripChars(_)
StripChars(s) ==
    IF s = <<>> THEN s
    ELSE IF Head(s) = " " THEN StripChars(Tail(s))
    ELSE IF s[Len(s)] = " " THEN StripChars(SubSeq(s, 1, Len(s) - 1))
    ELSE s

RECURSIVE DigitsValue(_)
DigitsValue(s) ==
    IF s = <<>> THEN 0 ELSE 10 * DigitsValue(SubSeq(s, 1, Len(s) - 1)) + DigitVal(s[Len(s)])

\* int(s): surrounding whitespace and one sign allowed, then digits only
PyInt(s) ==
    LET t == StripChars(s)
        signed == t # <<>> /\ Head(t) \in {"-", "+"}
        d == IF signed THEN Tail(t) ELSE t
    IN IF d # <<>> /\ \A i \in 1..Len(d) : d[i] \in DigitChars
       THEN [ok |-> TRUE,
             val |-> IF signed /\ Head(t) = "-" THEN 0 - DigitsValue(d) ELSE DigitsValue(d)]
       ELSE [ok |-> FALSE, val |-> 0]

\* sh, sm = map(int, s.split(":")): exactly two integers, else ValueError
ParseHourMinute(s) ==
    LET parts == SplitAll(s, ":") IN
    IF Len(parts) = 2 /\ PyInt(parts[1]).ok /\ PyInt(parts[2]).ok
    THEN [ok |-> TRUE, h |-> PyInt(parts[1]).val, m |-> PyInt(parts[2]).val]
    ELSE [ok |-> FALSE, h |-> 0, m |-> 0]

\* a faulty variant of ValidHourMinute: the bounds are compared as parsed
ValidHourMinute_Unchecked(hm) == TRUE

\* now.replace(hour=h, minute=m, second=0, microsecond=0) raises ValueError out of range
ValidHourMinute(hm) == hm.h \in 0..23 /\ hm.m \in 0..59

\* a faulty variant of SecondsOfDay: the seconds of the reading are dropped
SecondsOfDay_Minutes(h, m, s) == h * 3600 + m * 60

\* seconds since midnight
SecondsOfDay(h, m, s) == h * 3600 + m * 60 + s

\* a faulty variant of Between: a window whose start is after its end wraps
\* past midnight
Between_Wrapping(start, now, end) ==
    IF start <= end THEN start <= now /\ now <= end
    ELSE start <= now \/ now <= end

\* line 200: start <= now <= end
Between(start, now, end) == start <= now /\ now <= end

\* the gate: cfg is QUIET_HOURS_WIB, now is datetime.now() as [h, m, s]
WithinQuietHours(cfg, now) ==
    IF cfg = <<>> THEN TRUE
    ELSE LET halves == SplitOnce(cfg, "-") IN
         IF Len(halves) # 2 THEN TRUE
         ELSE LET st == ParseHourMinute(halves[1])
                  en == ParseHourMinute(halves[2])
              IN IF ~(st.ok /\ en.ok /\ ValidHourMinute(st) /\ ValidHourMinute(en))
                 THEN TRUE
                 ELSE Between(SecondsOfDay(st.h, st.m, 0),
                              SecondsOfDay(now.h, now.m, now.s),
                              SecondsOfDay(en.h, en.m, 0))

---------------------------------------------------------------------------
(* Chats, tickers and documents *)

\* int(chat_id_str), src/bot.py:632 and 649: [ok, val]
IntOfKey(k) ==
    CASE k = "100" -> [ok |-> TRUE, val |-> 100]
      [] k = "200" -> [ok |-> TRUE, val |-> 200]
      [] OTHER -> [ok |-> FALSE, val |-> 0]

\* str(chat_id), src/bot.py:597 and 614
StrOfInt(n) == CASE n = 100 -> "100" [] n = 200 -> "200"

\* _code_only, src/bot.py:102-103
CodeOnly(tkr) ==
    CASE tkr = "BBCA.JK" -> "BBCA"
      [] tkr = "TLKM.JK" -> "TLKM"
      [] OTHER -> tkr

\* the history cap of state[chat][code][-40:], src/bot.py:706
HistoryCap == 40

\* the ticker cap of tickers[:25], src/bot.py:659
TickerCap == 25

\* a faulty variant of RecordLink: the history is never truncated
RecordLink_NoTruncate(hist, link) == Append(hist, link)

\* a faulty variant of RecordLink: the newest entries are dropped, not the oldest
RecordLink_KeepFirst(hist, link) == PySliceTo(Append(hist, link), HistoryCap)

\* lines 705-706: append, then keep the last 40
RecordLink(hist, link) == PySliceLast(Append(hist, link), HistoryCap)

\* a faulty variant of AutonewsEnabledForChat: the toggle is not consulted
AutonewsEnabledForChat_Always(doc, chat_id) == TRUE

\* _autonews_enabled_for_chat, src/bot.py:609-614
AutonewsEnabledForChat(doc, chat_id) ==
    IF StrOfInt(chat_id) \in DOMAIN doc.meta THEN doc.meta[StrOfInt(chat_id)] ELSE TRUE

\* lines 626-637: the chats of the watchlist document that pass the toggle
FilterChats(watch, doc) ==
    SelectSeq(watch, LAMBDA e : IntOfKey(e.key).ok
                                /\ AutonewsEnabledForChat(doc, IntOfKey(e.key).val))

\* the urls 1..n, oldest first
RECURSIVE OldLinks(_)
OldLinks(n) == IF n = 0 THEN <<>> ELSE Append(OldLinks(n - 1), n)

\* the first url no initial history holds
FreshLink == HistoryCap + 1

\* the links the feeds of the job return: the oldest url of a full history and
\* a new one
JobLinks == {1, FreshLink}

\* a ledger document with one (chat, ticker) history of n urls and no entry
\* for any other chat or ticker
LedgerWith(n) ==
    [hist |-> [k \in {"100"} |-> [c \in {"BBCA"} |-> OldLinks(n)]], meta |-> EmptyObj]

\* the ledger document the job starts from: one history at the cap, the other
\* chats and tickers not yet seen
InitialLedger == LedgerWith(HistoryCap)

\* the watchlist document: {"chats": {...}} in document order
InitialWatchlist ==
    << [key |-> "100", tickers |-> <<"BBCA.JK", "TLKM.JK">>],
       [key |-> "x",   tickers |-> <<"BBCA.JK">>],
       [key |-> "200", tickers |-> <<"BBCA.JK">>] >>

\* the triples (chat, ticker, url) of a ledger document
Triples(doc) ==
    UNION {UNION {{<<k, c, u>> : u \in Range(doc.hist[k][c])} : c \in DOMAIN doc.hist[k]}
           : k \in DOMAIN doc.hist}

\* the window configuration of the job's runs
WindowDay == <<"0", "7", ":", "3", "0", "-", "1", "6", ":", "3", "0">>

\* the clock before any reading
Midnight == [h |-> 0, m |-> 0, s |-> 0]

\* clock readings at the start of a run
JobClock == {[h |-> 8, m |-> 0, s |-> 0], [h |-> 18, m |-> 0, s |-> 0]}

---------------------------------------------------------------------------
(* Feeds: what feedparser.parse returns for the query of each source *)

SeqsUpTo(S, n) == UNION {[1..k -> S] : k \in 0..n}

\* one source's outcome: the call raises, or returns a list of entries
RaisedOutcome == [ok |-> FALSE, entries |-> <<>>]

EmptyOutcome == [ok |-> TRUE, entries |-> <<>>]

FeedOutcomes(entries, n) ==
    {RaisedOutcome} \cup {[ok |-> TRUE, entries |-> s] : s \in SeqsUpTo(entries, n)}

LabelSet == Range(SourceLabels)

\* the feeds in which one source answers with one of outcomesA, another with
\* one of outcomesB, and the others with an empty list
FeedsOver(outcomesA, outcomesB) ==
    {[l \in LabelSet |-> IF l = a THEN oa ELSE IF l = b THEN ob ELSE EmptyOutcome]
        : a \in LabelSet, b \in LabelSet, oa \in outcomesA, ob \in outcomesB}

\* entries of the feeds the job meets: a title and one of the job's links
JobEntries == {[title |-> Text(1), link |-> Text(u)] : u \in JobLinks}

\* the feeds of the job: the first MaxJobSources sources answer, the others
\* return an empty list
JobFeeds ==
    {[l \in LabelSet |->
        IF \E k \in 1..Min(MaxJobSources, Len(SourceLabels)) : SourceLabels[k] = l
        THEN f[l] ELSE EmptyOutcome]
     : f \in [{SourceLabels[k] : k \in 1..Min(MaxJobSources, Len(SourceLabels))}
              -> FeedOutcomes(JobEntries, MaxFeedLen)]}

\* line 665: what _fetch_news_for_code may return to the job
JobFetchResults ==
    {FetchNewsForCode(feed, NEWS_ITEMS_PER_SOURCE, NEWS_LIMIT_TOTAL) : feed \in JobFeeds}

---------------------------------------------------------------------------
(* The scheduled job: _job_auto_news_wrapper, src/bot.py:617-721 *)

NoMsg == [key |-> "", code |-> "", link |-> 0, kind |-> "", plain |-> FALSE]

\* the locals of a job that is not running
JobIdle ==
    /\ pc' = "idle"
    /\ filtered' = <<>>
    /\ state' = [hist |-> EmptyObj, meta |-> EmptyObj]
    /\ ci' = 0
    /\ sent_this_run' = 0
    /\ tickers' = <<>>
    /\ ti' = 0
    /\ code' = ""
    /\ already' = {}
    /\ items' = <<>>
    /\ ii' = 0
    /\ new_sent_for_ticker' = 0
    /\ msg' = NoMsg

\* an exception leaves the job: nothing in the wrapper catches it, line 721 is
\* not reached and the in-memory state is dropped
Abort ==
    /\ JobIdle
    /\ lastRun' = "aborted"
    /\ UNCHANGED <<cfgVars, fileVars, runs, sentLog, recorded, prevHist, cmds, killedSent, pace, clock, harnessVars>>

\* the host process is terminated in the middle of a run and started again:
\* the locals are gone, line 721 is not reached, the documents are as they
\* were (a termination inside save_json leaves the target whole, see the
\* persistence harness); runs counts the runs that no termination interrupted
Kill ==
    /\ pc # "idle"
    /\ JobIdle
    /\ lastRun' = "killed"
    /\ runs' = runs - 1
    /\ killedSent' = killedSent \cup Range(sentLog)
    /\ UNCHANGED <<cfgVars, fileVars, sentLog, recorded, prevHist, cmds, pace, clock,
                   harnessVars>>

\* lines 621-624: the run returns at once, the window being closed
JobStartClosed ==
    /\ pc = "idle"
    /\ AUTO_NEWS_ENABLED
    /\ runs < MaxRuns
    /\ \E now \in JobClock : ~WithinQuietHours(QUIET_HOURS_WIB, now) /\ clock' = now
    /\ runs' = runs + 1
    /\ lastRun' = "closed"
    /\ sentLog' = <<>>
    /\ UNCHANGED <<cfgVars, fileVars, jobVars, recorded, prevHist, cmds, killedSent, pace, harnessVars>>

\* lines 621-624: the gate passes on a clock reading
GateOpens ==
    /\ pc = "idle"
    /\ AUTO_NEWS_ENABLED
    /\ \E now \in JobClock : WithinQuietHours(QUIET_HOURS_WIB, now) /\ clock' = now

\* lines 626-645: filter the chats, load the ledger
OpenRun ==
    /\ lastRun' = "running"
    /\ sentLog' = <<>>
    /\ filtered' = FilterChats(watchlistFile, newsStateFile)
    /\ state' = newsStateFile
    /\ ci' = 1
    /\ pc' = "chat"
    /\ pace' = "none"
    /\ UNCHANGED <<cfgVars, fileVars, sent_this_run, tickers, ti, code, already, items, ii,
                   new_sent_for_ticker, msg, recorded, prevHist, cmds, killedSent, harnessVars>>

\* lines 621-645: the window is open; filter the chats, load the ledger
JobStartOpen ==
    /\ GateOpens
    /\ runs < MaxRuns
    /\ runs' = runs + 1
    /\ OpenRun

\* the same start, fired by run_repeating for as long as the process lives
JobStartAgain ==
    /\ GateOpens
    /\ UNCHANGED runs
    /\ OpenRun

\* line 647 exhausted, line 721: _save_news_state(state)
JobSave ==
    /\ pc = "chat"
    /\ ci > Len(filtered)
    /\ newsStateFile' = state
    /\ JobIdle
    /\ lastRun' = "completed"
    /\ UNCHANGED <<cfgVars, watchlistFile, runs, sentLog, recorded, prevHist, cmds, killedSent, pace, clock, harnessVars>>

\* a faulty variant of ChatAllowed: the allow-list is not consulted
ChatAllowed_Always(allowed, chat_id) == TRUE

\* line 653: the test of the allow-list, an empty set meaning none configured
ChatAllowed(allowed, chat_id) == ~(allowed # {} /\ chat_id \notin allowed)

\* lines 653-654: the chat is not in the configured allow-list
ChatSkip ==
    /\ pc = "chat"
    /\ ci <= Len(filtered)
    /\ ~ChatAllowed(ALLOWED_GROUP_IDS, IntOfKey(filtered[ci].key).val)
    /\ ci' = ci + 1
    /\ UNCHANGED <<cfgVars, fileVars, pc, filtered, state, sent_this_run, tickers, ti, code,
                   already, items, ii, new_sent_for_ticker, msg, histVars, harnessVars>>

\* lines 656-659: enter the chat
ChatEnter ==
    /\ pc = "chat"
    /\ ci <= Len(filtered)
    /\ ChatAllowed(ALLOWED_GROUP_IDS, IntOfKey(filtered[ci].key).val)
    /\ state' = [state EXCEPT !.hist = SetDefault(@, filtered[ci].key, EmptyObj)]
    /\ sent_this_run' = 0
    /\ tickers' = PySliceTo(filtered[ci].tickers, TickerCap)
    /\ ti' = 1
    /\ pc' = "ticker"
    /\ UNCHANGED <<cfgVars, fileVars, filtered, ci, code, already, items, ii,
                   new_sent_for_ticker, msg, histVars, harnessVars>>

\* the locals of the candidates loop, dead once the loop is left
ItemLocalsDead ==
    /\ code' = ""
    /\ already' = {}
    /\ items' = <<>>
    /\ ii' = 0
    /\ new_sent_for_ticker' = 0
    /\ msg' = NoMsg

\* the locals of the tickers loop, dead once the loop is left
TickerLocalsDead ==
    /\ tickers' = <<>>
    /\ ti' = 0
    /\ sent_this_run' = 0

\* line 660 exhausted: the chat's tickers are done, on to the next chat
TickersDone ==
    /\ pc = "ticker"
    /\ ti > Len(tickers)
    /\ ci' = ci + 1
    /\ pc' = "chat"
    /\ TickerLocalsDead
    /\ UNCHANGED <<cfgVars, fileVars, filtered, state, code, already, items, ii,
                   new_sent_for_ticker, msg, histVars, harnessVars>>

\* lines 661-666: the ticker's history and its candidates, the fetch
\* returning r
FetchReturns(r) ==
    /\ pc = "ticker"
    /\ ti <= Len(tickers)
    /\ LET key == filtered[ci].key
           c == CodeOnly(tickers[ti])
           h == SetDefault(state.hist[key], c, <<>>)
       IN /\ ~r.raised
          /\ code' = c
          /\ state' = [state EXCEPT !.hist[key] = h]
          /\ already' = Range(h[c])
          /\ items' = r.items
    /\ ii' = 1
    /\ new_sent_for_ticker' = 0
    /\ pc' = "item"
    /\ UNCHANGED <<cfgVars, fileVars, filtered, ci, sent_this_run, tickers, ti, msg,
                   histVars, harnessVars>>

\* lines 661-666 over any answer of the feeds
FetchOk ==
    /\ pc = "ticker"
    /\ \E r \in JobFetchResults : FetchReturns(r)

\* lines 661-666 over feeds that answer every query alike
FetchSteady ==
    /\ pc = "ticker"
    /\ FetchReturns(FetchNewsForCode(feedIn, NEWS_ITEMS_PER_SOURCE, NEWS_LIMIT_TOTAL))

\* line 665: _fetch_news_for_code raises
FetchRaises ==
    /\ pc = "ticker"
    /\ ti <= Len(tickers)
    /\ \E r \in JobFetchResults : r.raised
    /\ Abort

\* lines 718-719 after the candidates loop: the chat cap ends the chat
AfterItems ==
    /\ ItemLocalsDead
    /\ IF sent_this_run >= AUTO_NEWS_PER_CHAT_MAX_PER_RUN
       THEN ci' = ci + 1 /\ pc' = "chat" /\ TickerLocalsDead
       ELSE ti' = ti + 1 /\ pc' = "ticker" /\ UNCHANGED <<ci, tickers, sent_this_run>>

\* line 668 exhausted
ItemsDone ==
    /\ pc = "item"
    /\ ii > Len(items)
    /\ AfterItems
    /\ UNCHANGED <<cfgVars, fileVars, filtered, state, histVars, harnessVars>>

\* lines 669-670: the link is in the history read at line 663
ItemSkip ==
    /\ pc = "item"
    /\ ii <= Len(items)
    /\ items[ii].link \in already
    /\ ii' = ii + 1
    /\ UNCHANGED <<cfgVars, fileVars, pc, filtered, state, ci, sent_this_run, tickers, ti,
                   code, already, items, new_sent_for_ticker, msg, histVars, harnessVars>>

\* scrape_article (src/news_scraper.py:99-133): an article or None
ScrapeOutcomes == {"article", "none"}

\* summarize_article (src/gemini_client.py:10-67): a text, None (no key, empty
\* text), or an exception of generate_content
SummarizeOutcomes == {"text", "none", "raise"}

\* lines 672-698: the message composed after a scrape and a summary; "none"
\* when summarize_article, called on an article, raises
MessageKind(art, sum) ==
    IF art = "none" THEN "headline"
    ELSE IF sum = "raise" THEN "none"
    ELSE IF sum = "text" THEN "summary" ELSE "headline"

\* lines 672-698: scrape, summarize, compose the message
ItemCompose ==
    /\ pc = "item"
    /\ ii <= Len(items)
    /\ items[ii].link \notin already
    /\ \E kind \in {MessageKind(art, sum) :
                        art \in ScrapeOutcomes, sum \in SummarizeOutcomes} \ {"none"} :
         msg' = [key |-> filtered[ci].key, code |-> code, link |-> items[ii].link,
                 kind |-> kind, plain |-> FALSE]
    /\ pc' = "send"
    /\ UNCHANGED <<cfgVars, fileVars, filtered, state, ci, sent_this_run, tickers, ti,
                   code, already, items, ii, new_sent_for_ticker, histVars, harnessVars>>

\* line 675: summarize_article raises
SummarizeRaises ==
    /\ pc = "item"
    /\ ii <= Len(items)
    /\ items[ii].link \notin already
    /\ \E art \in ScrapeOutcomes, sum \in SummarizeOutcomes : MessageKind(art, sum) = "none"
    /\ Abort

\* lines 705-709 after a send that returned
Recorded ==
    LET key == msg.key
        old == state.hist[key][msg.code]
        new == RecordLink(old, msg.link)
    IN /\ state' = [state EXCEPT !.hist[key][msg.code] = new]
       /\ prevHist' = old
       /\ recorded' = (recorded \ {<<key, msg.code, u>> : u \in Range(old) \ Range(new)})
                        \cup {<<key, msg.code, msg.link>>}
       /\ new_sent_for_ticker' = new_sent_for_ticker + 1
       /\ sent_this_run' = sent_this_run + 1
       /\ pc' = "sleep"

\* a delivered message, as the chat sees it
Sent(m) == [key |-> m.key, code |-> m.code, link |-> m.link]

\* line 701: the formatted send returns
SendOk ==
    /\ pc = "send"
    /\ sentLog' = Append(sentLog, Sent(msg))
    /\ pace' = "called"
    /\ Recorded
    /\ UNCHANGED <<cfgVars, fileVars, filtered, ci, tickers, ti, code, already, items, ii,
                   msg, runs, lastRun, cmds, killedSent, clock, harnessVars>>

\* lines 701-702: the formatted send raises, the plain-text retry starts
SendFails ==
    /\ pc = "send"
    /\ pc' = "retry"
    /\ msg' = [msg EXCEPT !.plain = TRUE]
    /\ pace' = "called"
    /\ UNCHANGED <<cfgVars, fileVars, filtered, state, ci, sent_this_run, tickers, ti, code,
                   already, items, ii, new_sent_for_ticker, runs, lastRun, sentLog, recorded,
                   prevHist, cmds, killedSent, clock, harnessVars>>

\* line 703: the plain-text send returns
RetryOk ==
    /\ pc = "retry"
    /\ sentLog' = Append(sentLog, Sent(msg))
    /\ pace' = "called"
    /\ Recorded
    /\ UNCHANGED <<cfgVars, fileVars, filtered, ci, tickers, ti, code, already, items, ii,
                   msg, runs, lastRun, cmds, killedSent, clock, harnessVars>>

\* line 703: the plain-text send raises too, inside the except clause
RetryFails ==
    /\ pc = "retry"
    /\ Abort

\* lines 711-716: the pacing delay is over; the caps are tested after the send
Wake ==
    /\ pc = "sleep"
    /\ IF new_sent_for_ticker >= AUTO_NEWS_PER_TICKER_MAX_NEW
          \/ sent_this_run >= AUTO_NEWS_PER_CHAT_MAX_PER_RUN
       THEN AfterItems
       ELSE /\ ii' = ii + 1
            /\ pc' = "item"
            /\ msg' = NoMsg
            /\ UNCHANGED <<ci, ti, tickers, sent_this_run, code, already, items,
                           new_sent_for_ticker>>
    /\ prevHist' = <<>>
    /\ pace' = "slept"
    /\ UNCHANGED <<cfgVars, fileVars, filtered, state, runs, lastRun, sentLog, recorded,
                   cmds, killedSent, clock, harnessVars>>

---------------------------------------------------------------------------
(* The /autonews command: cmd_autonews, src/bot.py:582-606 *)

\* the job is suspended (an await of lines 701, 703, 711) or not running
AwaitPoints == {"idle", "send", "retry", "sleep"}

\* lines 592-604: load the document, set the chat's toggle, save it
CmdAutonews ==
    /\ cmds < MaxCmds
    /\ pc \in AwaitPoints
    /\ \E chat_id \in {100, 200}, on \in BOOLEAN :
         newsStateFile' = [newsStateFile EXCEPT !.meta = Put(@, StrOfInt(chat_id), on)]
    /\ cmds' = cmds + 1
    /\ UNCHANGED <<cfgVars, watchlistFile, jobVars, runs, lastRun, sentLog, recorded, prevHist,
                   killedSent, pace, clock, harnessVars>>

---------------------------------------------------------------------------
(* The program: configuration, documents, the job and the command *)

NoFetch == [raised |-> FALSE, items |-> <<>>]

NoFeed == [l \in LabelSet |-> EmptyOutcome]

\* the document path of the persistence harness
StorePath == <<"news_state.json">>

\* the persistence harness is not in use
StoreOff ==
    /\ fs = [p \in {StorePath, TmpPath(StorePath)} |-> NoFile]
    /\ spc = "off"
    /\ saveData = [kind |-> "object", body |-> <<>>]
    /\ prevTarget = NoFile
    /\ crashedAt = "none"
    /\ loadOut = [kind |-> "none", body |-> <<>>]

\* the gate harness is not in use
GateOff == gpc = "off" /\ gateOut = TRUE

\* the wall clock when the process starts: time.time() is seconds since
\* 1970, far above every configured limit
BootTime == 100

\* the rate limiter is not in use
RateOff ==
    /\ RATE_LIMIT_SECONDS = 0
    /\ LAST_CALL = EmptyObj
    /\ wall = BootTime
    /\ rlLog = <<>>

\* the /watch command is not in use
NoCommand == [action |-> "none", chat |-> 0, ticker |-> <<>>]

WatchOff == wlExpect = EmptyObj /\ wlLast = NoCommand

\* os.getenv defaults of NEWS_ITEMS_PER_SOURCE and NEWS_LIMIT_TOTAL, src/bot.py:64-65
DefaultItemsPerSource == 2

DefaultLimitTotal == 6

\* the process has started and the job has not run yet; feed is what the
\* sources answer when they answer every query alike
AtRest(feed) ==
    /\ pc = "idle"
    /\ filtered = <<>>
    /\ state = [hist |-> EmptyObj, meta |-> EmptyObj]
    /\ ci = 0
    /\ sent_this_run = 0
    /\ tickers = <<>>
    /\ ti = 0
    /\ code = ""
    /\ already = {}
    /\ items = <<>>
    /\ ii = 0
    /\ new_sent_for_ticker = 0
    /\ msg = NoMsg
    /\ runs = 0
    /\ lastRun = "none"
    /\ sentLog = <<>>
    /\ recorded = Triples(newsStateFile)
    /\ prevHist = <<>>
    /\ cmds = 0
    /\ killedSent = {}
    /\ pace = "none"
    /\ clock = Midnight
    /\ fpc = "off"
    /\ feedIn = feed
    /\ fetchOut = NoFetch
    /\ StoreOff
    /\ GateOff
    /\ RateOff
    /\ WatchOff

JobAtRest == AtRest(NoFeed)

Init ==
    /\ AUTO_NEWS_ENABLED \in BOOLEAN
    /\ AUTO_NEWS_PER_TICKER_MAX_NEW \in 0..MaxCap
    /\ AUTO_NEWS_PER_CHAT_MAX_PER_RUN \in 0..MaxCap
    /\ NEWS_ITEMS_PER_SOURCE = DefaultItemsPerSource
    /\ NEWS_LIMIT_TOTAL = DefaultLimitTotal
    /\ ALLOWED_GROUP_IDS \in {{}, {100}}
    /\ QUIET_HOURS_WIB = WindowDay
    /\ newsStateFile = InitialLedger
    /\ watchlistFile = InitialWatchlist
    /\ JobAtRest

Next ==
    \/ JobStartClosed
    \/ JobStartOpen
    \/ JobSave
    \/ ChatSkip
    \/ ChatEnter
    \/ TickersDone
    \/ FetchOk
    \/ FetchRaises
    \/ ItemsDone
    \/ ItemSkip
    \/ ItemCompose
    \/ SummarizeRaises
    \/ SendOk
    \/ SendFails
    \/ RetryOk
    \/ RetryFails
    \/ Wake

Spec == Init /\ [][Next]_vars

\* the job together with /autonews commands arriving while it is suspended
\* the toggles of a ledger document: each chat on, off or not set
ToggleMaps == UNION {[keys -> BOOLEAN] : keys \in SUBSET {"100", "200"}}

\* the job over ledger documents that hold toggles, under the default
\* per-ticker cap and a per-chat cap that no chat of the watchlist exceeds
InitToggle ==
    /\ AUTO_NEWS_ENABLED = TRUE
    /\ AUTO_NEWS_PER_TICKER_MAX_NEW = 1
    /\ AUTO_NEWS_PER_CHAT_MAX_PER_RUN = MaxCap
    /\ NEWS_ITEMS_PER_SOURCE = DefaultItemsPerSource
    /\ NEWS_LIMIT_TOTAL = DefaultLimitTotal
    /\ ALLOWED_GROUP_IDS \in {{}, {100}}
    /\ QUIET_HOURS_WIB = WindowDay
    /\ newsStateFile \in {[InitialLedger EXCEPT !.meta = m] : m \in ToggleMaps}
    /\ watchlistFile = InitialWatchlist
    /\ JobAtRest

SpecToggle == InitToggle /\ [][Next]_vars

\* the job with the /autonews command, under the default per-ticker cap and a
\* per-chat cap that no chat of the watchlist exceeds
InitCmd ==
    /\ Init
    /\ AUTO_NEWS_ENABLED
    /\ AUTO_NEWS_PER_TICKER_MAX_NEW = 1
    /\ AUTO_NEWS_PER_CHAT_MAX_PER_RUN = MaxCap

NextCmd == Next \/ CmdAutonews

SpecCmd == InitCmd /\ [][NextCmd]_vars

\* the job and terminations of the process in the middle of a run
NextKill == Next \/ Kill

SpecKill == InitCmd /\ [][NextKill]_vars

\* the steps of the job in which no call raises out of the run
NextQuiet ==
    \/ JobStartClosed
    \/ JobStartOpen
    \/ JobSave
    \/ ChatSkip
    \/ ChatEnter
    \/ TickersDone
    \/ FetchOk
    \/ ItemsDone
    \/ ItemSkip
    \/ ItemCompose
    \/ SendOk
    \/ SendFails
    \/ RetryOk
    \/ Wake

\* terminations of the process as the only way a run ends before its save
SpecKillOnly == InitCmd /\ [][NextQuiet \/ Kill]_vars

\* the feeds that answer every query alike and never raise
SteadyFeeds == {f \in JobFeeds : \A l \in LabelSet : f[l].ok}

\* the job fired again and again (run_repeating, src/bot.py:739-745) over a
\* fixed watchlist and steady feeds, both caps at least 1, no window and no
\* allow-list
InitLive ==
    /\ AUTO_NEWS_ENABLED = TRUE
    /\ AUTO_NEWS_PER_TICKER_MAX_NEW = 1
    /\ AUTO_NEWS_PER_CHAT_MAX_PER_RUN \in 1..MaxCap
    /\ NEWS_ITEMS_PER_SOURCE = DefaultItemsPerSource
    /\ NEWS_LIMIT_TOTAL = DefaultLimitTotal
    /\ ALLOWED_GROUP_IDS = {}
    /\ QUIET_HOURS_WIB = <<>>
    /\ newsStateFile = InitialLedger
    /\ watchlistFile = InitialWatchlist
    /\ \E feed \in SteadyFeeds : AtRest(feed)

\* the steps of a run over steady feeds when nothing fails
NextSteady ==
    \/ JobStartAgain
    \/ JobSave
    \/ ChatEnter
    \/ TickersDone
    \/ FetchSteady
    \/ ItemsDone
    \/ ItemSkip
    \/ ItemCompose
    \/ SendOk
    \/ Wake

\* the job is fired on time and every step of a run is taken
SpecSteady == InitLive /\ [][NextSteady]_vars /\ WF_vars(NextSteady)

\* the steps of a run over steady feeds, the summarizer and the sends failing
\* or not
NextLive ==
    \/ NextSteady
    \/ SummarizeRaises
    \/ SendFails
    \/ RetryOk
    \/ RetryFails

\* the job is fired on time and every step of a run is taken; the summarizer
\* and the sends do not fail for ever
SpecLive ==
    /\ InitLive
    /\ [][NextLive]_vars
    /\ WF_vars(NextLive)
    /\ SF_vars(ItemCompose)
    /\ SF_vars(SendOk)

\* feeds that answer every query alike: the first source with up to
\* MaxFeedLen entries, the second with at most one, the others with none
OrderFeeds ==
    {[l \in LabelSet |->
        IF l = SourceLabels[1] THEN [ok |-> TRUE, entries |-> s1]
        ELSE IF l = SourceLabels[2] THEN [ok |-> TRUE, entries |-> s2]
        ELSE EmptyOutcome]
     : s1 \in SeqsUpTo(JobEntries, MaxFeedLen), s2 \in SeqsUpTo(JobEntries, 1)}

\* the job over feeds of two sources, under caps of at least 1
InitOrder ==
    /\ AUTO_NEWS_ENABLED = TRUE
    /\ AUTO_NEWS_PER_TICKER_MAX_NEW \in 1..MaxCap
    /\ AUTO_NEWS_PER_CHAT_MAX_PER_RUN \in 1..MaxCap
    /\ NEWS_ITEMS_PER_SOURCE = DefaultItemsPerSource
    /\ NEWS_LIMIT_TOTAL = DefaultLimitTotal
    /\ ALLOWED_GROUP_IDS = {}
    /\ QUIET_HOURS_WIB = <<>>
    /\ newsStateFile = InitialLedger
    /\ watchlistFile = InitialWatchlist
    /\ \E feed \in OrderFeeds : AtRest(feed)

\* the steps of the runs over these feeds
NextOrder ==
    \/ JobStartOpen
    \/ JobSave
    \/ ChatEnter
    \/ TickersDone
    \/ FetchSteady
    \/ ItemsDone
    \/ ItemSkip
    \/ ItemCompose
    \/ SummarizeRaises
    \/ SendOk
    \/ SendFails
    \/ RetryOk
    \/ RetryFails
    \/ Wake

SpecOrder == InitOrder /\ [][NextOrder]_vars

\* well-formed windows whose start is after their end
NightWindows ==
    {<<"1", "6", ":", "3", "0", "-", "0", "7", ":", "3", "0">>,
     <<"2", "2", ":", "0", "0", "-", "0", "2", ":", "0", "0">>}

\* clock readings of the night: before and after midnight, and the bounds
NightClock ==
    {[h |-> 22, m |-> 0, s |-> 0], [h |-> 23, m |-> 0, s |-> 0],
     [h |-> 1, m |-> 0, s |-> 0], [h |-> 2, m |-> 0, s |-> 0]}

\* the job under the day window or a window whose start is after its end,
\* under the default per-ticker cap and a per-chat cap that no chat of the
\* watchlist exceeds
InitNight ==
    /\ AUTO_NEWS_ENABLED = TRUE
    /\ AUTO_NEWS_PER_TICKER_MAX_NEW = 1
    /\ AUTO_NEWS_PER_CHAT_MAX_PER_RUN = MaxCap
    /\ NEWS_ITEMS_PER_SOURCE = DefaultItemsPerSource
    /\ NEWS_LIMIT_TOTAL = DefaultLimitTotal
    /\ ALLOWED_GROUP_IDS \in {{}, {100}}
    /\ QUIET_HOURS_WIB \in {WindowDay} \cup NightWindows
    /\ newsStateFile = InitialLedger
    /\ watchlistFile = InitialWatchlist
    /\ JobAtRest

SpecNight == InitNight /\ [][Next]_vars

---------------------------------------------------------------------------
(* The candidate fetch taken alone: one call of _fetch_news_for_code on a  *)
(* feed drawn from a bounded set, under every configured pair of limits    *)

\* feed entries: two titles and two links, a padded link, an empty title, an
\* empty link, a title of whitespace only
FetchEntries ==
    {[title |-> Text(1), link |-> Text(1)],
     [title |-> Text(2), link |-> Text(1)],
     [title |-> Text(1), link |-> Text(2)],
     [title |-> Text(2), link |-> Padded(1)],
     [title |-> Text(0), link |-> Text(1)],
     [title |-> Text(1), link |-> Text(0)],
     [title |-> Padded(0), link |-> Text(2)]}

\* one source answers with up to MaxFeedLen entries, another with at most one
FetchFeeds ==
    FeedsOver(FeedOutcomes(FetchEntries, MaxFeedLen), FeedOutcomes(FetchEntries, 1))

InitFetch ==
    /\ AUTO_NEWS_ENABLED = TRUE
    /\ AUTO_NEWS_PER_TICKER_MAX_NEW = 1
    /\ AUTO_NEWS_PER_CHAT_MAX_PER_RUN = 1
    /\ NEWS_ITEMS_PER_SOURCE \in 0..MaxCap
    /\ NEWS_LIMIT_TOTAL \in 0..MaxCap \cup {DefaultLimitTotal}
    /\ ALLOWED_GROUP_IDS = {}
    /\ QUIET_HOURS_WIB = <<>>
    /\ newsStateFile = [hist |-> EmptyObj, meta |-> EmptyObj]
    /\ watchlistFile = <<>>
    /\ pc = "idle"
    /\ filtered = <<>>
    /\ state = [hist |-> EmptyObj, meta |-> EmptyObj]
    /\ ci = 0
    /\ sent_this_run = 0
    /\ tickers = <<>>
    /\ ti = 0
    /\ code = ""
    /\ already = {}
    /\ items = <<>>
    /\ ii = 0
    /\ new_sent_for_ticker = 0
    /\ msg = NoMsg
    /\ runs = 0
    /\ lastRun = "none"
    /\ sentLog = <<>>
    /\ recorded = {}
    /\ prevHist = <<>>
    /\ cmds = 0
    /\ killedSent = {}
    /\ pace = "none"
    /\ clock = Midnight
    /\ fpc = "ready"
    /\ feedIn \in FetchFeeds
    /\ fetchOut = NoFetch
    /\ StoreOff
    /\ GateOff
    /\ RateOff
    /\ WatchOff

\* the call: src/bot.py:349-377
DoFetch ==
    /\ fpc = "ready"
    /\ fetchOut' = FetchNewsForCode(feedIn, NEWS_ITEMS_PER_SOURCE, NEWS_LIMIT_TOTAL)
    /\ fpc' = "done"
    /\ UNCHANGED <<cfgVars, fileVars, jobVars, histVars, feedIn, storeVars, gateVars, rateVars,
                   watchVars>>

NextFetch == DoFetch

SpecFetch == InitFetch /\ [][NextFetch]_vars

---------------------------------------------------------------------------
(* load_json and save_json taken alone: one save of a document over a      *)
(* target file, a crash of the process at any point of it, and a load      *)

\* the job and the fetch harness are not in use
JobOff ==
    /\ AUTO_NEWS_ENABLED = TRUE
    /\ AUTO_NEWS_PER_TICKER_MAX_NEW = 1
    /\ AUTO_NEWS_PER_CHAT_MAX_PER_RUN = 1
    /\ NEWS_ITEMS_PER_SOURCE = DefaultItemsPerSource
    /\ NEWS_LIMIT_TOTAL = DefaultLimitTotal
    /\ ALLOWED_GROUP_IDS = {}
    /\ newsStateFile = [hist |-> EmptyObj, meta |-> EmptyObj]
    /\ watchlistFile = <<>>
    /\ pc = "idle"
    /\ filtered = <<>>
    /\ state = [hist |-> EmptyObj, meta |-> EmptyObj]
    /\ ci = 0
    /\ sent_this_run = 0
    /\ tickers = <<>>
    /\ ti = 0
    /\ code = ""
    /\ already = {}
    /\ items = <<>>
    /\ ii = 0
    /\ new_sent_for_ticker = 0
    /\ msg = NoMsg
    /\ runs = 0
    /\ lastRun = "none"
    /\ sentLog = <<>>
    /\ recorded = {}
    /\ prevHist = <<>>
    /\ cmds = 0
    /\ killedSent = {}
    /\ pace = "none"
    /\ fpc = "off"
    /\ feedIn = NoFeed
    /\ fetchOut = NoFetch

\* the content tokens of the documents
DocTokens == {"a", "b"}

\* the JSON values of a kind
ValuesOf(kind) == {[kind |-> kind, body |-> b] : b \in SeqsUpTo(DocTokens, MaxDocLen)}

\* the documents the program saves: dicts (src/bot.py:393, src/storage.py:37)
SavedValues == ValuesOf("object")

\* what the target can hold before a save: nothing, a document, a JSON array,
\* a text that does not parse
StoreTargets ==
    {NoFile}
      \cup {FileOf(Dump(v)) : v \in ValuesOf("object") \cup ValuesOf("array")}
      \cup {FileOf(<<>>), FileOf(<<"{", "a">>)}

\* what the temporary file can hold before a save: nothing, or the rest of
\* an earlier save that crashed
StoreLeftovers == {NoFile, FileOf(<<"{", "b">>)}

InitStore ==
    /\ JobOff
    /\ QUIET_HOURS_WIB = <<>>
    /\ clock = Midnight
    /\ GateOff
    /\ RateOff
    /\ WatchOff
    /\ \E target \in StoreTargets, tmp \in StoreLeftovers :
         /\ fs = [p \in {StorePath, TmpPath(StorePath)} |->
                    IF p = StorePath THEN target ELSE tmp]
         /\ prevTarget = target
    /\ spc = "ready"
    /\ saveData \in SavedValues
    /\ crashedAt = "none"
    /\ loadOut = [kind |-> "none", body |-> <<>>]

\* lines 17-18: the temporary file is opened for writing
SaveOpen ==
    /\ spc = "ready"
    /\ fs' = OpenForWrite(fs, TmpPath(StorePath))
    /\ spc' = "open"
    /\ UNCHANGED <<saveData, prevTarget, crashedAt, loadOut>>

\* line 19: json.dump writes the next token of the text
SaveWrite ==
    LET tmp == TmpPath(StorePath)
        n == Len(fs[tmp].text)
    IN /\ spc = "open"
       /\ n < Len(Dump(saveData))
       /\ fs' = WriteToken(fs, tmp, Dump(saveData)[n + 1])
       /\ UNCHANGED <<spc, saveData, prevTarget, crashedAt, loadOut>>

\* line 19 done, the with block of line 18 is left: the file is closed
SaveClose ==
    /\ spc = "open"
    /\ Len(fs[TmpPath(StorePath)].text) >= Len(Dump(saveData))
    /\ spc' = "closed"
    /\ UNCHANGED <<fs, saveData, prevTarget, crashedAt, loadOut>>

\* line 20: os.replace(tmp, path)
SaveReplace ==
    /\ spc = "closed"
    /\ fs' = Replace(fs, TmpPath(StorePath), StorePath)
    /\ spc' = "replaced"
    /\ UNCHANGED <<saveData, prevTarget, crashedAt, loadOut>>

\* save_json returns
SaveReturn ==
    /\ spc = "replaced"
    /\ spc' = "done"
    /\ UNCHANGED <<fs, saveData, prevTarget, crashedAt, loadOut>>

\* the process dies at some point of save_json
Crash ==
    /\ spc \in {"ready", "open", "closed", "replaced"}
    /\ crashedAt' = spc
    /\ spc' = "crashed"
    /\ UNCHANGED <<fs, saveData, prevTarget, loadOut>>

\* load_json of the target, after the save or after the crash
LoadAfter ==
    /\ spc \in {"done", "crashed"}
    /\ loadOut' = LoadJson(fs, StorePath, [kind |-> "object", body |-> <<>>])
    /\ spc' = "loaded"
    /\ UNCHANGED <<fs, saveData, prevTarget, crashedAt>>

\* the code that takes the loaded value: the job's ledger (state.get in
\* _autonews_enabled_for_chat, state.setdefault in the chat loop), the job's
\* watchlist read, and get_watchlist / set_watchlist
Consumers == {"job_ledger", "job_watchlist", "watchlist_ops"}

\* the consumer calls a dict method on the value: AttributeError when the
\* value is not a dict; only the job's watchlist read tests isinstance first
ConsumerRaises(consumer, value) ==
    /\ value.kind # "object"
    /\ consumer # "job_watchlist"

\* the loaded value is used
UseLoaded ==
    /\ spc = "loaded"
    /\ \E consumer \in Consumers :
         spc' = IF ConsumerRaises(consumer, loadOut) THEN "raised" ELSE "used"
    /\ UNCHANGED <<fs, saveData, prevTarget, crashedAt, loadOut>>

NextStore ==
    /\ \/ SaveOpen
       \/ SaveWrite
       \/ SaveClose
       \/ SaveReplace
       \/ SaveReturn
       \/ Crash
       \/ LoadAfter
       \/ UseLoaded
    /\ UNCHANGED <<cfgVars, fileVars, jobVars, histVars, fetchVars, gateVars, rateVars,
                   watchVars>>

SpecStore == InitStore /\ [][NextStore]_vars

---------------------------------------------------------------------------
(* The window gate taken alone: one call of _within_quiet_hours_wib on a   *)
(* configured window string and a clock reading                            *)

\* a number below 100 as two decimal digits
TwoDigits(n) ==
    LET d(k) == CHOOSE c \in DigitChars : DigitVal(c) = k
    IN <<d(n \div 10), d(n % 10)>>

\* the window string "HH:MM-HH:MM" of a window [sh, sm, eh, em]
WindowText(w) ==
    TwoDigits(w.sh) \o <<":">> \o TwoDigits(w.sm) \o <<"-">>
        \o TwoDigits(w.eh) \o <<":">> \o TwoDigits(w.em)

Window(sh, sm, eh, em) == [sh |-> sh, sm |-> sm, eh |-> eh, em |-> em]

\* well-formed windows: a day window, the whole day, a window of one minute
\* and of one instant, and a window whose start is after its end
GateWindows ==
    {Window(7, 30, 16, 30), Window(0, 0, 23, 59), Window(8, 0, 8, 1),
     Window(16, 30, 16, 30), Window(16, 30, 7, 30)}

\* window strings with no dash
NoDashWindows == {<<"0", "7", ":", "3", "0">>, <<"x">>}

\* window strings with a half that has no colon
NoColonWindows ==
    {<<"0", "7", "3", "0", "-", "1", "6", "3", "0">>,
     <<"0", "7", ":", "3", "0", "-", "1", "6", "3", "0">>,
     <<"-", "1", "6", ":", "3", "0">>}

\* window strings with a part that is no number
NonNumericWindows ==
    {<<"a", "b", ":", "3", "0", "-", "1", "6", ":", "3", "0">>,
     <<"0", "7", ":", "3", "x", "-", "1", "6", ":", "3", "0">>,
     <<"0", "7", ":", "3", "0", "-", "1", "6", ":">>,
     <<"0", "7", ":", "3", "0", "-", "1", "6", ":", "3", "0", "-", "x">>}

\* window strings with an hour or a minute out of range
OutOfRangeWindows ==
    {WindowText(Window(24, 0, 25, 0)), WindowText(Window(7, 60, 16, 30)),
     WindowText(Window(7, 30, 16, 61)), WindowText(Window(7, 30, 24, 0)),
     <<"0", "7", ":", "3", "0", "-", "-", "1", ":", "3", "0">>}

MalformedWindows ==
    NoDashWindows \cup NoColonWindows \cup NonNumericWindows \cup OutOfRangeWindows

\* clock readings around the bounds of the windows
GateClock ==
    {[h |-> h, m |-> m, s |-> s] :
        h \in {0, 7, 8, 16, 18, 23}, m \in {0, 1, 29, 30, 31, 59}, s \in {0, 1}}

InitGate ==
    /\ JobOff
    /\ QUIET_HOURS_WIB \in
          {<<>>} \cup {WindowText(w) : w \in GateWindows} \cup MalformedWindows
    /\ clock \in GateClock
    /\ StoreOff
    /\ RateOff
    /\ WatchOff
    /\ gpc = "ready"
    /\ gateOut = TRUE

\* the call: src/bot.py:187-203
DoGate ==
    /\ gpc = "ready"
    /\ gateOut' = WithinQuietHours(QUIET_HOURS_WIB, clock)
    /\ gpc' = "done"
    /\ UNCHANGED <<cfgVars, fileVars, jobVars, histVars, fetchVars, storeVars, rateVars,
                   watchVars>>

NextGate == DoGate

SpecGate == InitGate /\ [][NextGate]_vars

---------------------------------------------------------------------------
(* The rate limiter taken alone: calls of _rate_limit_ok, src/bot.py:81-91, *)
(* by users and commands, as the wall clock moves                           *)

\* configured values of RATE_LIMIT_SECONDS
RateLimits == {0, 2}

RateUsers == {1, 2}

\* the rate keys of the commands (src/bot.py:528, 547)
RateKeys == {"news", "watch"}

\* a faulty variant of PairOf: the map is keyed by the user alone
PairOf_UserOnly(user_id, key) == <<user_id, "">>

\* line 86: k = (user_id, key)
PairOf(user_id, key) == <<user_id, key>>

\* line 87: _LAST_CALL.get(k, 0.0)
LastOf(map, k) == IF k \in DOMAIN map THEN map[k] ELSE 0

\* lines 84-91: the outcome of a call at time now and the map after it
RateLimitOk(map, now, user_id, key, seconds) ==
    LET k == PairOf(user_id, key)
    IN IF now - LastOf(map, k) < seconds
       THEN [ok |-> FALSE, map |-> map]
       ELSE [ok |-> TRUE, map |-> Put(map, k, now)]

InitRate ==
    /\ JobOff
    /\ QUIET_HOURS_WIB = <<>>
    /\ clock = Midnight
    /\ StoreOff
    /\ GateOff
    /\ WatchOff
    /\ RATE_LIMIT_SECONDS \in RateLimits
    /\ LAST_CALL = EmptyObj
    /\ wall = BootTime
    /\ rlLog = <<>>

\* time passes; time.time() is the wall clock and may be set back
ClockStep ==
    /\ \E d \in {-1, 1, 2} :
         /\ wall + d \in BootTime..(BootTime + MaxWall)
         /\ wall' = wall + d
    /\ UNCHANGED <<RATE_LIMIT_SECONDS, LAST_CALL, rlLog>>

\* a command of a user reaches the limiter (src/bot.py:176, which calls it
\* for a user id other than 0)
RateCall ==
    /\ Len(rlLog) < MaxCalls
    /\ \E user_id \in RateUsers, key \in RateKeys :
         LET r == RateLimitOk(LAST_CALL, wall, user_id, key, RATE_LIMIT_SECONDS)
         IN /\ LAST_CALL' = r.map
            /\ rlLog' = Append(rlLog, [user |-> user_id, key |-> key, at |-> wall,
                                        ok |-> r.ok])
    /\ UNCHANGED <<RATE_LIMIT_SECONDS, wall>>

NextRate ==
    /\ \/ ClockStep
       \/ RateCall
    /\ UNCHANGED <<cfgVars, fileVars, jobVars, histVars, fetchVars, storeVars, gateVars,
                   watchVars>>

SpecRate == InitRate /\ [][NextRate]_vars

---------------------------------------------------------------------------
(* The /watch command taken alone: cmd_watch, src/bot.py:546-579, over the  *)
(* watchlist document of src/storage.py:23-37.  A ticker is a sequence of   *)
(* characters                                                               *)

\* the code points of the characters: Python orders str by code point
Ord(c) ==
    CASE c = "." -> 46
      [] c = "A" -> 65
      [] c = "B" -> 66
      [] c = "J" -> 74
      [] c = "K" -> 75
      [] c = "a" -> 97
      [] c = "b" -> 98
      [] c = "j" -> 106
      [] c = "k" -> 107

UpperChar(c) ==
    CASE c = "a" -> "A"
      [] c = "b" -> "B"
      [] c = "j" -> "J"
      [] c = "k" -> "K"
      [] OTHER -> c

\* str.upper()
Upper(s) == [i \in 1..Len(s) |-> UpperChar(s[i])]

\* str.endswith(suffix)
EndsWith(s, suffix) ==
    /\ Len(s) >= Len(suffix)
    /\ SubSeq(s, Len(s) - Len(suffix) + 1, Len(s)) = suffix

DotJK == <<".", "J", "K">>

\* a faulty variant of NormalizeIdxTicker: the case of the argument is kept
NormalizeIdxTicker_NoUpper(arg) ==
    IF EndsWith(arg, DotJK) THEN arg ELSE arg \o DotJK

\* _normalize_idx_ticker, src/bot.py:96-98; an argument of a command holds
\* no white space, so strip() leaves it as it is
NormalizeIdxTicker(arg) ==
    LET c == Upper(arg)
    IN IF EndsWith(c, DotJK) THEN c ELSE c \o DotJK

\* a < b on str
StrLess(a, b) ==
    \E i \in 1..Len(b) :
        /\ \A j \in 1..(i - 1) : j <= Len(a) /\ a[j] = b[j]
        /\ (i > Len(a) \/ Ord(a[i]) < Ord(b[i]))

\* sorted(set(...)) of str
RECURSIVE SortedOf(_)
SortedOf(S) ==
    IF S = {} THEN <<>>
    ELSE LET m == CHOOSE x \in S : \A y \in S \ {x} : StrLess(x, y)
         IN <<m>> \o SortedOf(S \ {m})

\* chats.get(str(chat_id), []), src/storage.py:26
ChatsGet(watch, key) ==
    IF \E i \in 1..Len(watch) : watch[i].key = key
    THEN watch[CHOOSE i \in 1..Len(watch) : watch[i].key = key].tickers
    ELSE <<>>

\* get_watchlist, src/storage.py:23-30
GetWatchlist(watch, chat_id) ==
    SortedOf({Upper(x) : x \in {y \in Range(ChatsGet(watch, StrOfInt(chat_id))) : y # <<>>}})

\* set_watchlist, src/storage.py:33-37: the document that is saved
SetWatchlist(watch, chat_id, list) ==
    LET key == StrOfInt(chat_id)
        entry == [key |-> key, tickers |-> SortedOf(Range(list))]
    IN IF \E i \in 1..Len(watch) : watch[i].key = key
       THEN [i \in 1..Len(watch) |-> IF watch[i].key = key THEN entry ELSE watch[i]]
       ELSE Append(watch, entry)

WatchChats == {100, 200}

\* arguments of /watch add and /watch remove, with the ticker each one names
WatchArgs ==
    { [text |-> <<"A">>,                means |-> <<"A", ".", "J", "K">>],
      [text |-> <<"a">>,                means |-> <<"A", ".", "J", "K">>],
      [text |-> <<"A", ".", "J", "K">>, means |-> <<"A", ".", "J", "K">>],
      [text |-> <<"a", "b">>,           means |-> <<"A", "B", ".", "J", "K">>],
      [text |-> <<"B">>,                means |-> <<"B", ".", "J", "K">>],
      [text |-> <<"b", ".", "j", "k">>, means |-> <<"B", ".", "J", "K">>] }

\* the tickers a chat added and did not remove afterwards
Expected(chat_id) == IF chat_id \in DOMAIN wlExpect THEN wlExpect[chat_id] ELSE {}

InitWatch ==
    /\ JobOff
    /\ QUIET_HOURS_WIB = <<>>
    /\ clock = Midnight
    /\ StoreOff
    /\ GateOff
    /\ RateOff
    /\ wlExpect = EmptyObj
    /\ wlLast = NoCommand

\* lines 553-555, 562-570: /watch add <arg> in a chat
WatchAdd ==
    \E chat_id \in WatchChats, arg \in WatchArgs :
        LET wl == GetWatchlist(watchlistFile, chat_id)
            ticker == NormalizeIdxTicker(arg.text)
        IN /\ watchlistFile' = SetWatchlist(watchlistFile, chat_id,
                                            SortedOf(Range(wl) \cup {ticker}))
           /\ wlExpect' = Put(wlExpect, chat_id, Expected(chat_id) \cup {arg.means})
           /\ wlLast' = [action |-> "add", chat |-> chat_id, ticker |-> arg.means]

\* lines 553-555, 562-566, 572-576: /watch remove <arg> in a chat
WatchRemove ==
    \E chat_id \in WatchChats, arg \in WatchArgs :
        LET wl == GetWatchlist(watchlistFile, chat_id)
            ticker == NormalizeIdxTicker(arg.text)
        IN /\ watchlistFile' = SetWatchlist(watchlistFile, chat_id,
                                            SelectSeq(wl, LAMBDA x : x # ticker))
           /\ wlExpect' = Put(wlExpect, chat_id, Expected(chat_id) \ {arg.means})
           /\ wlLast' = [action |-> "remove", chat |-> chat_id, ticker |-> arg.means]

NextWatch ==
    /\ \/ WatchAdd
       \/ WatchRemove
    /\ UNCHANGED <<cfgVars, newsStateFile, jobVars, histVars, fetchVars, storeVars, gateVars,
                   rateVars>>

SpecWatch == InitWatch /\ [][NextWatch]_vars

---------------------------------------------------------------------------
(* Properties of the scheduled job, checked under Spec *)

\* number of messages of the current run's log that satisfy P
CountSent(P(_)) == Cardinality({i \in 1..Len(sentLog) : P(sentLog[i])})

\* the messages of the run's log sent to a chat
SentTo(key) == {i \in 1..Len(sentLog) : sentLog[i].key = key}

\* a step that delivers a message
Delivers == Len(sentLog') = Len(sentLog) + 1

Delivered == sentLog'[Len(sentLog')]

\* every history of a ledger document is within the cap
HistoriesBounded(doc) ==
    \A k \in DOMAIN doc.hist : \A c \in DOMAIN doc.hist[k] :
        Len(doc.hist[k][c]) <= HistoryCap

\* C1: once the job has recorded a url in the history of (chat, ticker), no
\* later delivery sends that url to that chat for that ticker, as long as the
\* cap has not evicted it: no step delivers a triple that is recorded.
C1_NoResendOfRecorded ==
    [][Delivers => <<Delivered.key, Delivered.code, Delivered.link>> \notin recorded]_vars

\* C1, for the persisted ledger: no step delivers a url that the persisted
\* history of its (chat, ticker) holds.
C1_NoResendOfPersisted ==
    [][Delivers =>
         ~(/\ Delivered.key \in DOMAIN newsStateFile.hist
           /\ Delivered.code \in DOMAIN newsStateFile.hist[Delivered.key]
           /\ Delivered.link \in Range(newsStateFile.hist[Delivered.key][Delivered.code]))]_vars

\* C2: in every run and for every chat, the number of messages sent to the
\* chat is at most AUTO_NEWS_PER_CHAT_MAX_PER_RUN, whatever its value, 0 included.
C2_PerChatCap ==
    \A k \in {"100", "200", "x"} :
        LET ToChat(m) == m.key = k
        IN CountSent(ToChat) <= AUTO_NEWS_PER_CHAT_MAX_PER_RUN

\* C2, for the caps of at least 1: the per-chat cap bounds the messages of a chat.
C2_PerChatCapPositive ==
    AUTO_NEWS_PER_CHAT_MAX_PER_RUN >= 1 => C2_PerChatCap

\* C3: in every run and for every (chat, ticker), the number of deliveries for
\* the ticker is at most AUTO_NEWS_PER_TICKER_MAX_NEW, whatever its value, 0
\* included.
C3_PerTickerCap ==
    \A k \in {"100", "200", "x"} : \A c \in {"BBCA", "TLKM"} :
        LET ForTicker(m) == m.key = k /\ m.code = c
        IN CountSent(ForTicker) <= AUTO_NEWS_PER_TICKER_MAX_NEW

\* C3, for the caps of at least 1: the per-ticker cap bounds the deliveries of
\* a (chat, ticker).
C3_PerTickerCapPositive ==
    AUTO_NEWS_PER_TICKER_MAX_NEW >= 1 => C3_PerTickerCap

\* C4: every stored history, in memory and persisted, has at most 40 entries,
\* and a record keeps the last 40 entries of the old history followed by the
\* new url, in order: the entries dropped are the oldest.
C4_HistoryBound ==
    /\ HistoriesBounded(state)
    /\ HistoriesBounded(newsStateFile)
    /\ pc = "sleep" =>
         LET full == Append(prevHist, msg.link)
             new == state.hist[msg.key][msg.code]
         IN /\ Len(new) = Min(Len(full), HistoryCap)
            /\ \A i \in 1..Len(new) : new[i] = full[Len(full) - Len(new) + i]

\* C4's case: a record on a full history dropped its oldest entry
C4_Evicted ==
    /\ pc = "sleep"
    /\ Len(prevHist) = HistoryCap
    /\ state.hist[msg.key][msg.code] = Append(Tail(prevHist), msg.link)

\* C5: when the formatted send fails the job retries once in plain text, and
\* whatever the retry does (a second failure included) the url is recorded and
\* the job goes on to its pacing delay.
C5_RetryFailureSwallowed ==
    [][(pc = "retry" /\ pc' # "retry") =>
         (/\ pc' = "sleep"
          /\ msg.link \in Range(state'.hist[msg.key][msg.code]))]_vars

\* C5's first half: the retry is the plain-text one and comes once, after a
\* failed formatted send.
C5_OneRetry ==
    [][(pc' = "retry" /\ pc # "retry") => (pc = "send" /\ ~msg.plain /\ msg'.plain)]_vars

\* C6: for every undelivered candidate the job reaches, whatever the scraper
\* and the summarizer do (no article, no summary, a failure), a message is
\* composed and handed to the send for that candidate: it is not skipped.
C6_HeadlineFallback ==
    [][(pc = "item" /\ ii <= Len(items) /\ items[ii].link \notin already /\ pc' # "item") =>
         (pc' = "send" /\ msg'.link = items[ii].link)]_vars

\* C7: a run that has passed the window gate is never aborted by a fetch,
\* scrape, summarize or send failure: it ends by saving the ledger.
C7_RunNeverAborts == lastRun # "aborted"

\* the step of line 721 that ends a completed run
SaveStep == pc = "chat" /\ pc' = "idle" /\ lastRun' = "completed"

\* the history of (chat, ticker) in a ledger document, empty when it has none
HistOf(doc, k, c) ==
    IF k \in DOMAIN doc.hist THEN
        IF c \in DOMAIN doc.hist[k] THEN doc.hist[k][c] ELSE <<>>
    ELSE <<>>

JobChats == {"100", "200", "x"}

JobCodes == {"BBCA", "TLKM"}

\* the urls of the run's log sent to a chat for a ticker, in send order
RECURSIVE LinksSent(_, _, _)
LinksSent(log, k, c) ==
    IF log = <<>> THEN <<>>
    ELSE IF Head(log).key = k /\ Head(log).code = c
         THEN <<Head(log).link>> \o LinksSent(Tail(log), k, c)
         ELSE LinksSent(Tail(log), k, c)

\* C15 as stated: a run that sends nothing, every candidate being in the
\* history of its (chat, ticker) or no candidate being returned, leaves the
\* persisted ledger document equal to the document before the run.
C15_NothingNewAsStated ==
    [][SaveStep /\ sentLog = <<>> => newsStateFile' = newsStateFile]_vars

\* C15 as amended: a run delivers only urls that the persisted history of
\* their (chat, ticker) does not hold, so it sends nothing when every
\* candidate is in the history; and a run that sends nothing leaves every
\* (chat, ticker) history with the same urls and the toggles as they were
\* (the document may gain empty histories).
C15_NothingNew ==
    [][/\ Delivers =>
            Delivered.link \notin
                Range(HistOf(newsStateFile, Delivered.key, Delivered.code))
       /\ SaveStep /\ sentLog = <<>> =>
            /\ \A k \in JobChats : \A c \in JobCodes :
                  HistOf(newsStateFile', k, c) = HistOf(newsStateFile, k, c)
            /\ newsStateFile'.meta = newsStateFile.meta]_vars

\* C15's case: a completed run sent nothing; the full history of (100, BBCA)
\* is as it was and (200, BBCA), absent before, holds an empty history
C15_NothingSent ==
    /\ lastRun = "completed"
    /\ runs = 1
    /\ sentLog = <<>>
    /\ HistOf(newsStateFile, "100", "BBCA") = OldLinks(HistoryCap)
    /\ "200" \in DOMAIN newsStateFile.hist
    /\ newsStateFile.hist["200"]["BBCA"] = <<>>

\* C16: after a completed run the history of every (chat, ticker) is its
\* history before the run followed by the urls sent to the chat for the
\* ticker during the run, in send order, cut to its last 40 entries.
C16_HistoryAfterRun ==
    [][SaveStep =>
         \A k \in JobChats : \A c \in JobCodes :
            HistOf(newsStateFile', k, c)
              = PySliceLast(HistOf(newsStateFile, k, c) \o LinksSent(sentLog, k, c),
                            HistoryCap)]_vars

\* C16's case: from no history for (200, BBCA), a completed run sent chat 200
\* exactly one message and the ledger holds that one url; in the same run
\* the full history of (100, BBCA) took a url and lost its oldest
C16_OneSendOneUrl ==
    /\ lastRun = "completed"
    /\ runs = 1
    /\ LinksSent(sentLog, "200", "BBCA") = <<FreshLink>>
    /\ Cardinality(SentTo("200")) = 1
    /\ newsStateFile.hist["200"]["BBCA"] = <<FreshLink>>
    /\ LinksSent(sentLog, "100", "BBCA") = <<FreshLink>>
    /\ newsStateFile.hist["100"]["BBCA"] = Append(Tail(OldLinks(HistoryCap)), FreshLink)

---------------------------------------------------------------------------
(* Properties of the repeated job, checked under SpecLive and SpecSteady *)

\* the chat watches the ticker and the job handles the chat
Subscribed(k, c) ==
    \E i \in 1..Len(watchlistFile) :
        /\ watchlistFile[i].key = k
        /\ IntOfKey(k).ok
        /\ c \in {CodeOnly(t) : t \in Range(PySliceTo(watchlistFile[i].tickers, TickerCap))}

\* the urls the steady feeds return for a ticker
SteadyCandidates ==
    {it.link : it \in Range(FetchNewsForCode(feedIn, NEWS_ITEMS_PER_SOURCE,
                                               NEWS_LIMIT_TOTAL).items)}

\* the url has reached the chat for the ticker: it is in the run's log or in
\* the persisted history
Reached(k, c, u) ==
    \/ [key |-> k, code |-> c, link |-> u] \in Range(sentLog)
    \/ u \in Range(HistOf(newsStateFile, k, c))

\* C18: with both caps at least 1, a fixed watchlist and feeds that keep
\* returning the same candidates, every candidate of every subscribed ticker
\* eventually reaches the chat, and from some run on the runs send nothing.
C18_DeferredAreDelivered ==
    /\ \A k \in JobChats : \A c \in JobCodes : \A u \in JobLinks :
          <>(Subscribed(k, c) /\ u \in SteadyCandidates => Reached(k, c, u))
    /\ <>[](sentLog = <<>>)

---------------------------------------------------------------------------
(* Properties of the job under terminations of the process, checked under  *)
(* SpecKill and SpecKillOnly                                               *)

\* a step that delivers a url that was recorded for its (chat, ticker) and
\* has not been evicted since: a second delivery
DeliversAgain ==
    /\ Delivers
    /\ <<Delivered.key, Delivered.code, Delivered.link>> \in recorded

\* C19: a termination in the middle of a run leaves the persisted ledger as
\* the last completed save wrote it, and once a run that had delivered
\* messages was interrupted by a termination, a run delivers a url a second
\* time to a (chat, ticker) only if the url was delivered during an
\* interrupted run.
C19_OnlyInterruptedResent ==
    [][/\ lastRun' = "killed" => newsStateFile' = newsStateFile
       /\ DeliversAgain /\ killedSent # {} => Delivered \in killedSent]_vars

\* what holds of second deliveries when terminations are the only way a run
\* ends before its save
C19_ResentOnlyAfterKill ==
    [][DeliversAgain => Delivered \in killedSent]_vars

\* the first half of C19: only the save of line 721 changes the persisted
\* ledger, and a termination does not
C19_LedgerOfLastSave ==
    [][newsStateFile' # newsStateFile => SaveStep]_vars

\* a termination was followed by a run that delivered again what the
\* interrupted run had delivered
C19_ResentAfterKill ==
    /\ lastRun = "completed"
    /\ sentLog # <<>>
    /\ sentLog[Len(sentLog)] \in killedSent

---------------------------------------------------------------------------
(* Properties of the job with the /autonews command, checked under SpecCmd *)

\* C20: the toggles that /autonews has written to the persisted ledger, while
\* the run was suspended at a send or at the pacing delay included, are in
\* the ledger with the same values after the run's save.
C20_ToggleSurvivesSave ==
    [][SaveStep =>
         \A k \in DOMAIN newsStateFile.meta :
            /\ k \in DOMAIN newsStateFile'.meta
            /\ newsStateFile'.meta[k] = newsStateFile.meta[k]]_vars

\* what holds of a toggle and a run: the save writes the toggles the run
\* loaded at its start
C20_SaveWritesLoadedToggles ==
    [][SaveStep => newsStateFile'.meta = state.meta]_vars

---------------------------------------------------------------------------
(* Pacing and order of the sends of a run, checked under Spec *)

\* a step that calls send_message: the formatted send of line 701 or the
\* plain-text send of line 703, returning or raising
SendCall == pc \in {"send", "retry"} /\ pc' # pc

\* the message of the call is the one candidate the loops stand at
OneAtATime ==
    /\ ci \in 1..Len(filtered) /\ msg.key = filtered[ci].key
    /\ ti \in 1..Len(tickers) /\ msg.code = CodeOnly(tickers[ti])
    /\ ii \in 1..Len(items) /\ msg.link = items[ii].link

\* C21: within a run, a pacing delay has elapsed since the previous
\* send_message call whenever send_message is called, the plain-text retry
\* of a failed formatted send included, and every call is for the one
\* candidate of the one ticker of the one chat being processed.
C21_PacedSends ==
    [][SendCall => pace # "called" /\ OneAtATime]_vars

\* what holds of C21: the calls are made one candidate at a time, and every
\* formatted send is the first call of the run or follows a pacing delay
C21_PacedFormattedSends ==
    [][SendCall => /\ OneAtATime
                   /\ pc = "send" => pace # "called"]_vars

---------------------------------------------------------------------------
(* The allow-list of the job, checked under SpecToggle *)

\* the job leaves the chat out: its key is not an integer, or an allow-list
\* is configured and does not hold its id
LeftOut(k) ==
    \/ ~IntOfKey(k).ok
    \/ ALLOWED_GROUP_IDS # {} /\ IntOfKey(k).val \notin ALLOWED_GROUP_IDS

\* C24: a chat of the watchlist that the allow-list does not hold, or whose
\* key is not an integer, is sent no message by a run and gets no ledger
\* entry, neither in the run's state nor in the persisted document.
C24_AllowList ==
    \A k \in {"200", "x"} :
        LeftOut(k) =>
            /\ SentTo(k) = {}
            /\ k \notin DOMAIN state.hist
            /\ k \notin DOMAIN newsStateFile.hist

\* C24's case: under the allow-list {100} a completed run sent to chat 100
\* and saved; chat 200, which watches a ticker too and whose toggle is on,
\* got nothing and has no ledger entry
C24_OnlyAllowedServed ==
    /\ ALLOWED_GROUP_IDS = {100}
    /\ lastRun = "completed"
    /\ SentTo("100") # {}
    /\ \E i \in 1..Len(watchlistFile) : watchlistFile[i].key = "200"
    /\ "200" \in DOMAIN newsStateFile.meta /\ newsStateFile.meta["200"]
    /\ SentTo("200") = {}
    /\ "200" \notin DOMAIN newsStateFile.hist

---------------------------------------------------------------------------
(* Windows whose start is after their end, checked under SpecNight *)

\* C25: under a well-formed window whose start is later than its end the
\* gate is closed at every time of day, the hours between start and midnight
\* and between midnight and end included, and the job delivers nothing: every
\* run returns at the gate.
C25_NoWrap ==
    QUIET_HOURS_WIB \in NightWindows =>
        /\ \A t \in JobClock \cup NightClock : ~WithinQuietHours(QUIET_HOURS_WIB, t)
        /\ sentLog = <<>>
        /\ pc = "idle"
        /\ lastRun \in {"none", "closed"}
        /\ newsStateFile = InitialLedger

\* C25's case: under 16:30-07:30 both runs were fired at 18:00 and returned
\* at the gate
C25_ClosedAtNight ==
    /\ QUIET_HOURS_WIB = <<"1", "6", ":", "3", "0", "-", "0", "7", ":", "3", "0">>
    /\ clock = [h |-> 18, m |-> 0, s |-> 0]
    /\ runs = MaxRuns
    /\ lastRun = "closed"
    /\ sentLog = <<>>

---------------------------------------------------------------------------
(* Order of the sends of a run, checked under SpecOrder *)

\* position of a chat in the watchlist document
ChatPos(k) == CHOOSE i \in 1..Len(watchlistFile) : watchlistFile[i].key = k

\* position of a ticker in the list of a chat
TickerPos(k, c) ==
    LET list == watchlistFile[ChatPos(k)].tickers
    IN CHOOSE i \in 1..Len(list) :
          CodeOnly(list[i]) = c /\ \A j \in 1..(i - 1) : CodeOnly(list[j]) # c

\* position of a url in the candidate list of the fetch
ItemPos(u) == CHOOSE i \in 1..Len(items) : items[i].link = u

\* position of a source in the registry
SourcePos(l) == CHOOSE k \in 1..Len(SourceLabels) : SourceLabels[k] = l

\* position of a candidate in the feed of its source
FeedPos(it) ==
    LET entries == feedIn[it.src].entries
    IN CHOOSE j \in 1..Len(entries) :
          /\ Strip(entries[j].link) = it.link
          /\ \A h \in 1..(j - 1) : Strip(entries[h].link) # it.link

\* the candidate list follows the registry order and, within a source, the
\* order of its feed
CandidatesInOrder ==
    \A a \in 1..Len(items) : \A b \in (a + 1)..Len(items) :
        \/ SourcePos(items[a].src) < SourcePos(items[b].src)
        \/ /\ items[a].src = items[b].src
           /\ FeedPos(items[a]) < FeedPos(items[b])

\* C22: every message of a run is sent after all the run's messages to
\* earlier chats of the watchlist document, to earlier tickers of the same
\* chat, and for earlier candidates of the same ticker, the candidate list
\* being in source registry order, then feed order.
C22_SendOrder ==
    [][Delivers =>
         /\ CandidatesInOrder
         /\ \A i \in 1..Len(sentLog) :
              LET p == sentLog[i] IN
              /\ ChatPos(p.key) <= ChatPos(Delivered.key)
              /\ p.key = Delivered.key =>
                    TickerPos(p.key, p.code) <= TickerPos(p.key, Delivered.code)
              /\ p.key = Delivered.key /\ p.code = Delivered.code =>
                    ItemPos(p.link) < ItemPos(Delivered.link)]_vars

\* C22's case: a completed run sent to chat 100 for BBCA, then for TLKM, then
\* to chat 200 two urls of one ticker, the first source's before the second's
C22_FourInOrder ==
    /\ lastRun = "completed"
    /\ Len(sentLog) = 4
    /\ sentLog[1] = [key |-> "100", code |-> "BBCA", link |-> FreshLink]
    /\ sentLog[2].key = "100" /\ sentLog[2].code = "TLKM"
    /\ sentLog[3] = [key |-> "200", code |-> "BBCA", link |-> FreshLink]
    /\ sentLog[4] = [key |-> "200", code |-> "BBCA", link |-> 1]
    /\ Strip(feedIn[SourceLabels[1]].entries[1].link) = FreshLink
    /\ Strip(feedIn[SourceLabels[2]].entries[1].link) = 1

---------------------------------------------------------------------------
(* Properties of the candidate fetch, checked under SpecFetch *)

\* the urls of the fetch's feeds: 1 is https://www.cnbcindonesia.com/market/1,
\* 2 is https://www.cnbcindonesia.com/lifestyle/2
UrlHost(u) == "www.cnbcindonesia.com"

UrlPath(u) == IF u = 1 THEN <<"market", "1">> ELSE <<"lifestyle", "2">>

\* domain in host, for the hosts above
HostContains(host, domain) ==
    host = "www.cnbcindonesia.com" /\ domain = "cnbcindonesia.com"

\* the path starts with the prefix /market
PathAllowed(path) == Len(path) >= 1 /\ path[1] = "market"

FetchDone == fpc = "done" /\ ~fetchOut.raised

\* C8: the fetch excludes every entry whose link host does not match the
\* domain of the source that returned it, and every entry whose host matches
\* but whose path does not start with a declared prefix (/market for CNBC).
C8_PathFilter ==
    FetchDone =>
        \A i \in 1..Len(fetchOut.items) :
            LET it == fetchOut.items[i] IN
            /\ HostContains(UrlHost(it.link), NEWS_DOMAINS[it.src])
            /\ PathAllowed(UrlPath(it.link))

\* an entry the loop of lines 358-362 accepts
ValidEntry(e) == ~IsEmptyText(e.title) /\ ~IsEmptyText(e.link)

\* the valid entries of the source at position k of the registry
ValidOf(k) == SelectSeq(feedIn[SourceLabels[k]].entries, ValidEntry)

\* the entries the source at position k contributes: its first
\* NEWS_ITEMS_PER_SOURCE valid entries (its first one under a limit below 1)
ContributedOf(k) == PySliceTo(ValidOf(k), Max(NEWS_ITEMS_PER_SOURCE, 1))

Returns(k, u) == \E j \in 1..Len(ValidOf(k)) : Strip(ValidOf(k)[j].link) = u

Contributes(k, u) ==
    \E j \in 1..Len(ContributedOf(k)) : Strip(ContributedOf(k)[j].link) = u

SourceIndexes == 1..Len(SourceLabels)

FetchLinks == {Strip(e.link) : e \in FetchEntries} \ {0}

NoLinkTwice ==
    \A i, j \in 1..Len(fetchOut.items) :
        i # j => fetchOut.items[i].link # fetchOut.items[j].link

CandidatesOf(u) == {i \in 1..Len(fetchOut.items) : fetchOut.items[i].link = u}

\* the first entry with link u in a list of entries
FirstWith(entries, u) ==
    entries[CHOOSE j \in 1..Len(entries) :
                /\ Strip(entries[j].link) = u
                /\ \A h \in 1..(j - 1) : Strip(entries[h].link) # u]

\* the first source, in registry order, for which P holds
FirstSource(P(_)) == CHOOSE k \in SourceIndexes : P(k) /\ \A h \in 1..(k - 1) : ~P(h)

\* C9 as stated: the result never holds a url twice, and a url that two
\* sources return has exactly one candidate, with the label and the title of
\* the first source in registry order that returns it.
C9_MergeDedupAsStated ==
    FetchDone =>
        /\ NoLinkTwice
        /\ \A u \in FetchLinks :
             LET R(k) == Returns(k, u) IN
             Cardinality({k \in SourceIndexes : R(k)}) >= 2 =>
                /\ Cardinality(CandidatesOf(u)) = 1
                /\ \A i \in CandidatesOf(u) :
                     /\ fetchOut.items[i].src = SourceLabels[FirstSource(R)]
                     /\ fetchOut.items[i].title
                          = Strip(FirstWith(ValidOf(FirstSource(R)), u).title)

\* the distinct urls the sources contribute
ContributedLinks == {u \in FetchLinks : \E k \in SourceIndexes : Contributes(k, u)}

\* C9 as amended: the result never holds a url twice; a url that two sources
\* contribute has at most one candidate, exactly one when the distinct
\* contributed urls fit in NEWS_LIMIT_TOTAL, and the candidate has the label
\* and the title of the first source in registry order that contributes it.
C9_MergeDedup ==
    FetchDone =>
        /\ NoLinkTwice
        /\ \A u \in FetchLinks :
             LET R(k) == Contributes(k, u) IN
             Cardinality({k \in SourceIndexes : R(k)}) >= 2 =>
                /\ Cardinality(CandidatesOf(u)) <= 1
                /\ Cardinality(ContributedLinks) <= NEWS_LIMIT_TOTAL
                     => Cardinality(CandidatesOf(u)) = 1
                /\ \A i \in CandidatesOf(u) :
                     /\ fetchOut.items[i].src = SourceLabels[FirstSource(R)]
                     /\ fetchOut.items[i].title
                          = Strip(FirstWith(ContributedOf(FirstSource(R)), u).title)

\* C9's case: two sources contributed url 1 under different titles and the
\* result holds it once, under the first source's label and title
C9_TwoSourcesOneCandidate ==
    /\ FetchDone
    /\ Contributes(1, 1) /\ Contributes(3, 1)
    /\ FirstWith(ContributedOf(1), 1).title # FirstWith(ContributedOf(3), 1).title
    /\ Cardinality(CandidatesOf(1)) = 1
    /\ \A i \in CandidatesOf(1) : fetchOut.items[i].src = "IDX"

\* the candidates of the result that carry a source label
WithLabel(l) == {i \in 1..Len(fetchOut.items) : fetchOut.items[i].src = l}

\* the feed without its entries of an empty title or an empty link
WithoutInvalid(feed) ==
    [l \in LabelSet |-> [ok |-> feed[l].ok, entries |-> SelectSeq(feed[l].entries, ValidEntry)]]

\* every candidate of the result stems from an entry of its source with a
\* non-empty title and a non-empty link
FromValidEntries ==
    \A i \in 1..Len(fetchOut.items) :
        \E e \in Range(feedIn[fetchOut.items[i].src].entries) :
            /\ ValidEntry(e)
            /\ Strip(e.link) = fetchOut.items[i].link
            /\ Strip(e.title) = fetchOut.items[i].title

\* the limits of the result and the treatment of invalid entries
LimitsKept ==
    /\ Len(fetchOut.items) <= NEWS_LIMIT_TOTAL
    /\ \A l \in LabelSet : Cardinality(WithLabel(l)) <= NEWS_ITEMS_PER_SOURCE
    /\ FromValidEntries
    /\ fetchOut = FetchNewsForCode(WithoutInvalid(feedIn), NEWS_ITEMS_PER_SOURCE,
                                   NEWS_LIMIT_TOTAL)

\* C23: for every configured value of the two limits, 0 included, the result
\* has at most NEWS_LIMIT_TOTAL candidates and at most NEWS_ITEMS_PER_SOURCE
\* of any one source label; entries with an empty title or an empty link are
\* not returned and do not count toward the per-source limit.
C23_FetchLimits == FetchDone => LimitsKept

\* what holds of C23: the same for every per-source limit of at least 1
C23_FetchLimitsPositive == FetchDone /\ NEWS_ITEMS_PER_SOURCE >= 1 => LimitsKept

\* and under a per-source limit of 0 a source gives at most one candidate
C23_OnePerSourceAtZero ==
    FetchDone /\ NEWS_ITEMS_PER_SOURCE = 0 =>
        \A l \in LabelSet : Cardinality(WithLabel(l)) <= 1

\* the feed with the failed sources answering an empty list
WithoutFailed(feed) == [l \in LabelSet |-> IF feed[l].ok THEN feed[l] ELSE EmptyOutcome]

\* C10: when the feed fetch of one source fails the fetch does not raise: the
\* source is skipped and the result is that of the remaining sources.
C10_FailedSourceSkipped ==
    fpc = "done" =>
        /\ ~fetchOut.raised
        /\ fetchOut.items
             = FetchNewsForCode(WithoutFailed(feedIn), NEWS_ITEMS_PER_SOURCE,
                                NEWS_LIMIT_TOTAL).items

---------------------------------------------------------------------------
(* Properties of load_json and save_json, checked under SpecStore *)

\* the save has not replaced the target yet
BeforeReplace ==
    \/ spc \in {"ready", "open", "closed"}
    \/ /\ spc \in {"crashed", "loaded", "used", "raised"}
       /\ crashedAt \in {"ready", "open", "closed"}

\* what load_json returns for a file
ValueOfFile(file) ==
    LoadJson([p \in {StorePath} |-> file], StorePath, [kind |-> "object", body |-> <<>>])

\* C11: at every point of save_json, and after a crash at any point of it, the
\* target is the previously persisted document until the rename and the
\* complete new document after it, never a partial text; a load after the
\* crash returns the value of one of the two.
C11_AtomicSave ==
    /\ BeforeReplace => fs[StorePath] = prevTarget
    /\ ~BeforeReplace => fs[StorePath] = FileOf(Dump(saveData))
    /\ spc \in {"loaded", "used", "raised"} =>
          loadOut = IF BeforeReplace THEN ValueOfFile(prevTarget) ELSE saveData

\* C11's case: the crash fell between the complete write of the temporary
\* file and the rename, over a parseable document with another content
C11_CrashBeforeRename ==
    /\ spc = "crashed"
    /\ crashedAt = "closed"
    /\ fs[TmpPath(StorePath)] = FileOf(Dump(saveData))
    /\ prevTarget.exists
    /\ Parse(prevTarget.text).ok
    /\ Parse(prevTarget.text).value # saveData
    /\ fs[StorePath] = prevTarget

\* the persisted document is absent, does not parse, or is not an object
InvalidDocument(file) ==
    \/ ~file.exists
    \/ ~Parse(file.text).ok
    \/ Parse(file.text).value.kind # "object"

\* C17: an absent, unparseable or wrongly shaped document is loaded as the
\* empty default, and no consumer of the loaded value fails.
C17_InvalidIsDefault ==
    /\ spc \in {"loaded", "used", "raised"} /\ InvalidDocument(fs[StorePath]) =>
          loadOut = [kind |-> "object", body |-> <<>>]
    /\ spc # "raised"

\* the part of C17 that holds: an absent or unparseable document is loaded
\* as the empty default and its consumers do not fail
C17_AbsentOrUnparseableIsDefault ==
    spc \in {"loaded", "used", "raised"}
      /\ (~fs[StorePath].exists \/ ~Parse(fs[StorePath].text).ok) =>
          /\ loadOut = [kind |-> "object", body |-> <<>>]
          /\ spc # "raised"

---------------------------------------------------------------------------
(* Properties of the window gate, checked under SpecGate *)

\* the time of day of a clock reading and of a window bound, in seconds
TimeOfDay(t) == (t.h * 60 + t.m) * 60 + t.s

StartOf(w) == (w.sh * 60 + w.sm) * 60

EndOf(w) == (w.eh * 60 + w.em) * 60

\* C12: with no window configured the gate is open at every time; with a
\* well-formed window whose start is not after its end the gate is open
\* exactly when the time of day lies between start and end, bounds included.
C12_WindowGate ==
    gpc = "done" =>
        /\ QUIET_HOURS_WIB = <<>> => gateOut
        /\ \A w \in GateWindows :
              QUIET_HOURS_WIB = WindowText(w) /\ StartOf(w) <= EndOf(w) =>
                (gateOut <=> StartOf(w) <= TimeOfDay(clock) /\ TimeOfDay(clock) <= EndOf(w))

\* C12's case: the window 07:30-16:30 at 18:00, closed
C12_ClosedInTheEvening ==
    /\ gpc = "done"
    /\ QUIET_HOURS_WIB = WindowText(Window(7, 30, 16, 30))
    /\ clock = [h |-> 18, m |-> 0, s |-> 0]
    /\ ~gateOut

\* C13: with a configured window that is no well-formed "HH:MM-HH:MM" (no
\* dash, no colon, a part that is no number, an hour or minute out of range)
\* the gate is open at every time.
C13_MalformedFailsOpen ==
    gpc = "done" /\ QUIET_HOURS_WIB \in MalformedWindows => gateOut

\* C13's case: the window 24:00-25:00, whose bounds would exclude 08:00
C13_OutOfRangeOpen ==
    /\ gpc = "done"
    /\ QUIET_HOURS_WIB = WindowText(Window(24, 0, 25, 0))
    /\ clock = [h |-> 8, m |-> 0, s |-> 0]
    /\ gateOut

---------------------------------------------------------------------------
(* Properties of the gate and the toggles in the job, checked under        *)
(* SpecToggle                                                              *)

\* the persisted toggle of a chat: true when the document holds no entry
ToggleOf(key) ==
    key \in DOMAIN newsStateFile.meta => newsStateFile.meta[key]

\* C14: a run sends a message to a chat only if the window (07:30-16:30) was
\* open at the clock reading of its start and the chat's persisted toggle is
\* true or not set; a chat whose toggle is false receives nothing.
C14_GateAndToggle ==
    \A key \in {"100", "200"} :
        SentTo(key) # {} =>
            /\ StartOf(Window(7, 30, 16, 30)) <= TimeOfDay(clock)
            /\ TimeOfDay(clock) <= EndOf(Window(7, 30, 16, 30))
            /\ ToggleOf(key)

\* C14's case: a completed run sent to chat 100, whose toggle is not set,
\* and nothing to chat 200, whose toggle is false
C14_ToggledOffSkipped ==
    /\ lastRun = "completed"
    /\ "100" \notin DOMAIN newsStateFile.meta
    /\ SentTo("100") # {}
    /\ "200" \in DOMAIN newsStateFile.meta
    /\ ~newsStateFile.meta["200"]
    /\ SentTo("200") = {}

---------------------------------------------------------------------------
(* Properties of the rate limiter, checked under SpecRate *)

\* the calls of the log, before position i, of the pair of call i that the
\* limiter accepted
AcceptedBefore(i) ==
    {j \in 1..(i - 1) : /\ rlLog[j].user = rlLog[i].user
                        /\ rlLog[j].key = rlLog[i].key
                        /\ rlLog[j].ok}

\* the last of them
LastAcceptedBefore(i) == CHOOSE j \in AcceptedBefore(i) : \A h \in AcceptedBefore(i) : h <= j

\* the accepted calls of a pair in the whole log
AcceptedOf(user_id, key) ==
    {j \in 1..Len(rlLog) : rlLog[j].user = user_id /\ rlLog[j].key = key /\ rlLog[j].ok}

\* C26: for every (user, command) pair any two accepted calls are at least
\* RATE_LIMIT_SECONDS apart; the first call of a pair is accepted; the
\* recorded last-call time of a pair is the time of its last accepted call,
\* which no rejected call moves; and the outcome of a call is decided by the
\* accepted calls of its own pair alone.
C26_RateLimit ==
    /\ \A i \in 1..Len(rlLog) : \A j \in AcceptedBefore(i) :
          rlLog[i].ok => rlLog[i].at - rlLog[j].at >= RATE_LIMIT_SECONDS
    /\ \A i \in 1..Len(rlLog) :
          (\A j \in 1..(i - 1) : rlLog[j].user # rlLog[i].user \/ rlLog[j].key # rlLog[i].key)
             => rlLog[i].ok
    /\ \A user_id \in RateUsers : \A key \in RateKeys :
          LET acc == AcceptedOf(user_id, key)
          IN IF acc = {} THEN <<user_id, key>> \notin DOMAIN LAST_CALL
             ELSE /\ <<user_id, key>> \in DOMAIN LAST_CALL
                  /\ LAST_CALL[<<user_id, key>>]
                        = rlLog[CHOOSE j \in acc : \A h \in acc : h <= j].at
    /\ \A i \in 1..Len(rlLog) :
          rlLog[i].ok <=>
             \/ AcceptedBefore(i) = {}
             \/ rlLog[i].at - rlLog[LastAcceptedBefore(i)].at >= RATE_LIMIT_SECONDS

\* C26's case: under a limit of 2 seconds a user's command was accepted,
\* rejected one second later, and accepted one second after that, two
\* seconds after the first
C26_RejectedThenAccepted ==
    /\ RATE_LIMIT_SECONDS = 2
    /\ Len(rlLog) = 3
    /\ rlLog[1] = [user |-> 1, key |-> "news", at |-> BootTime, ok |-> TRUE]
    /\ rlLog[2] = [user |-> 1, key |-> "news", at |-> BootTime + 1, ok |-> FALSE]
    /\ rlLog[3] = [user |-> 1, key |-> "news", at |-> BootTime + 2, ok |-> TRUE]

---------------------------------------------------------------------------
(* Properties of the /watch command, checked under SpecWatch *)

\* the list of a chat in the persisted document
Persisted(watch, chat_id) == ChatsGet(watch, StrOfInt(chat_id))

\* strictly ascending: sorted and free of duplicates
Ascending(list) == \A i \in 1..Len(list) : \A j \in (i + 1)..Len(list) : StrLess(list[i], list[j])

\* C27: after every /watch add and /watch remove the persisted list of each
\* chat is sorted, has no duplicates and holds exactly the tickers added and
\* not removed afterwards; adding a ticker that is present and removing one
\* that is absent leave the list as it was; and the command leaves the list
\* of every other chat as it was.
C27_Watchlist ==
    [][ /\ \A c \in WatchChats :
             /\ Ascending(Persisted(watchlistFile', c))
             /\ Range(Persisted(watchlistFile', c))
                   = (IF c \in DOMAIN wlExpect' THEN wlExpect'[c] ELSE {})
        /\ (wlLast'.action = "add"
               /\ wlLast'.ticker \in Range(Persisted(watchlistFile, wlLast'.chat)))
             => Persisted(watchlistFile', wlLast'.chat) = Persisted(watchlistFile, wlLast'.chat)
        /\ (wlLast'.action = "remove"
               /\ wlLast'.ticker \notin Range(Persisted(watchlistFile, wlLast'.chat)))
             => Persisted(watchlistFile', wlLast'.chat) = Persisted(watchlistFile, wlLast'.chat)
        /\ \A c \in WatchChats \ {wlLast'.chat} :
             Persisted(watchlistFile', c) = Persisted(watchlistFile, c)
      ]_vars

\* C27's case: the last command removed a ticker from a chat, which keeps
\* its two other tickers in order, while the other chat keeps a list of its
\* own that still holds the removed ticker
C27_RemovedOne ==
    /\ wlLast = [action |-> "remove", chat |-> 100, ticker |-> <<"A", "B", ".", "J", "K">>]
    /\ Persisted(watchlistFile, 100) = << <<"A", ".", "J", "K">>, <<"B", ".", "J", "K">> >>
    /\ Persisted(watchlistFile, 200) = << <<"A", "B", ".", "J", "K">>, <<"B", ".", "J", "K">> >>

=============================================================================
